---- MODULE Spec2Model ----
(***************************************************************************)
(* A model of the typed query builder of rorm: the select QueryBuilder     *)
(* (crud/query.rs), the row decoders (crud/decoder.rs,                     *)
(* internal/field/decoder.rs, fields/types/max_str.rs,                     *)
(* internal/field/foreign_model.rs), DbEnum decoding and the annotation    *)
(* linter Field::check_annotations (rorm/src/model.rs).                    *)
(*                                                                         *)
(* Rust's 0-based positions are kept as they are in the code; a row is a   *)
(* TLA+ sequence, so position i of the code is element i + 1.              *)
(***************************************************************************)
EXTENDS Integers, Sequences, FiniteSets, TLC

\* ------------------------------------------------------------------ bounds

\* u64 is scaled down to 0 .. MaxU64; arithmetic wraps modulo MaxU64 + 1.
MaxU64 == 5
\* The most rows the table of a query holds.
MaxRows == 2
\* The most bytes a stored string of a decoded row takes.
MaxStrLen == 2
\* The most values a list handed to in or not_in holds.
MaxList == 2
\* The largest max_length an annotation carries.
MaxMaxLength == 2

\* ---------------------------------------------------------------- constants

\* StarsAmount::new accepts the values of 0..=5.
StarsMin == 0

StarsMax == 5

\* ------------------------------------------------------------ option, u64

U64 == 0 .. MaxU64

\* An arithmetic step on u64: the wrapped value and whether it overflowed.
\* With overflow checks (debug builds) an overflow panics, without them
\* (release builds) the value wraps.
AddU64(a, b) == [val |-> (a + b) % (MaxU64 + 1), ovf |-> a + b > MaxU64]

SubU64(a, b) == [val |-> (a - b + MaxU64 + 1) % (MaxU64 + 1), ovf |-> a < b]

\* ------------------------------------------------------------ FiniteRange

\* A range argument: Range<u64> (incl = FALSE) or RangeInclusive<u64>.
RangeArgs == [incl : BOOLEAN, start : U64, end : U64]

FiniteRange_start(r) == r.start

\* impl FiniteRange<u64> for RangeInclusive<u64>: *self.end() + 1, forgotten.
RangeInclusive_end_NoPlusOne(r) == [val |-> r.end, ovf |-> FALSE]

\* impl FiniteRange<u64> for RangeInclusive<u64>: *self.end() + 1.
RangeInclusive_end(r) == AddU64(r.end, 1)

\* impl FiniteRange<T> for Range<T>: self.end.
Range_end(r) == [val |-> r.end, ovf |-> FALSE]

FiniteRange_end(r) == IF r.incl THEN RangeInclusive_end(r) ELSE Range_end(r)

\* FiniteRange::len: self.end() - self.start().
FiniteRange_len(r) ==
    LET e == FiniteRange_end(r)
        d == SubU64(e.val, FiniteRange_start(r))
    IN  [val |-> d.val, ovf |-> e.ovf \/ d.ovf]

\* ----------------------------------------------------- limit / offset markers

\* The generic parameter LO of the builder: () is neither, u64 an offset
\* alone, Limit<()> a limit alone, Limit<u64> both.
Unit == [has_limit |-> FALSE, limit |-> 0, has_offset |-> FALSE, offset |-> 0]

OffsetOnly(o) == [has_limit |-> FALSE, limit |-> 0, has_offset |-> TRUE, offset |-> o]

Limit(l, lo) == [has_limit |-> TRUE, limit |-> l,
                 has_offset |-> lo.has_offset, offset |-> lo.offset]

\* OffsetMarker implemented for Limit<O> too.
IsOffsetMarker_AnyLimOff(lo) == TRUE

\* OffsetMarker implemented for () and for Limit<()>.
IsOffsetMarker_LimitNoOffset(lo) == ~lo.has_offset

\* impl OffsetMarker for () and for u64.
IsOffsetMarker(lo) == ~lo.has_limit

\* impl LimitMarker for () and for Limit<O>.
IsLimitMarker(lo) == lo.has_limit \/ ~lo.has_offset

\* impl AcceptsOffset for () and for Limit<()>.
AcceptsOffset(lo) == ~lo.has_offset

\* AcceptsOffset::add_offset that forgets the limit.
add_offset_DropLimit(lo, o) == OffsetOnly(o)

\* AcceptsOffset::add_offset.
add_offset(lo, o) ==
    IF lo.has_limit THEN Limit(lo.limit, OffsetOnly(o)) ELSE OffsetOnly(o)

\* LimitMarker::into_option: the Option<LimitClause> handed to the database.
NoClause == [some |-> FALSE, limit |-> 0, has_offset |-> FALSE, offset |-> 0]

LimitMarker_into_option(lo) ==
    IF lo.has_limit
    THEN [some |-> TRUE, limit |-> lo.limit,
          has_offset |-> lo.has_offset, offset |-> lo.offset]
    ELSE NoClause

\* OffsetMarker::into_option that is None for an offset too.
OffsetMarker_into_option_None(lo) ==
    [some |-> FALSE, limit |-> 0, has_offset |-> FALSE, offset |-> 0]

\* OffsetMarker::into_option: the Option<u64> handed to query_one and
\* query_optional, kept in the shape of a clause without a limit.
OffsetMarker_into_option(lo) ==
    [some |-> FALSE, limit |-> 0, has_offset |-> lo.has_offset, offset |-> lo.offset]

\* ------------------------------------------------------------ values, rows

\* The code points of the stored strings: "a" takes one byte in UTF-8, "u2"
\* stands for a code point that takes two.
Chars == {"a", "u2"}

\* A wire value of a cell: NULL, a 16-bit integer or a string.
Null == [t |-> "Null", n |-> 0, s |-> <<>>]

I16(n) == [t |-> "I16", n |-> n, s |-> <<>>]

Str(s) == [t |-> "String", n |-> 0, s |-> s]

\* How a failing column is named: by its select alias or by its position.
NoIndex == [by |-> "none", name |-> "", pos |-> 0]

ByName(c) == [by |-> "name", name |-> c, pos |-> 0]

ByPos(i) == [by |-> "position", name |-> "", pos |-> i]

\* An error value: its kind, the column it names, its cause and its text.
NoErr == [kind |-> "", index |-> NoIndex, source |-> "", msg |-> ""]

\* RowError::Decode { index, source }.
RowError_Decode(index, source) ==
    [kind |-> "Decode", index |-> index, source |-> source, msg |-> ""]

\* Error::DecodeError(String): a text and nothing else.
Error_DecodeError(msg) ==
    [kind |-> "DecodeError", index |-> NoIndex, source |-> "", msg |-> msg]

\* The errors of the execution layer.
Error_Driver == [kind |-> "Driver", index |-> NoIndex, source |-> "", msg |-> ""]

Error_NotFound == [kind |-> "NotFound", index |-> NoIndex, source |-> "", msg |-> ""]

Error_TooMany == [kind |-> "TooMany", index |-> NoIndex, source |-> "", msg |-> ""]

\* Result<Value, Error> of decoding one cell.
Ok(v) == [ok |-> TRUE, val |-> v, err |-> NoErr]

Err(e) == [ok |-> FALSE, val |-> Null, err |-> e]

\* DecodeOwned for the primitive types i16, String, Option<i16> and
\* Option<String>: a NULL decodes only as an Option, a value only as its own
\* type. None is written Null.
DecodeOwned(ty, v, index) ==
    CASE v.t = "Null" ->
            IF ty \in {"OptI16", "OptString"} THEN Ok(Null)
            ELSE Err(RowError_Decode(index, "UnexpectedNull"))
      [] v.t = "I16" ->
            IF ty \in {"I16", "OptI16"} THEN Ok(v)
            ELSE Err(RowError_Decode(index, "TypeMismatch"))
      [] OTHER ->
            IF ty \in {"String", "OptString"} THEN Ok(v)
            ELSE Err(RowError_Decode(index, "TypeMismatch"))

\* The least position (0-based) of a cell of the row with the given alias;
\* Len(row) when there is none.
RECURSIVE PositionOf(_, _, _)
PositionOf(row, column, i) ==
    IF i >= Len(row) THEN Len(row)
    ELSE IF row[i + 1].name = column THEN i
    ELSE PositionOf(row, column, i + 1)

\* Row::get with a usize index.
Row_get_index(row, i, ty) ==
    IF i >= Len(row)
    THEN Err(RowError_Decode(ByPos(i), "ColumnIndexOutOfBounds"))
    ELSE DecodeOwned(ty, row[i + 1].val, ByPos(i))

\* Row::get with a &str index.
Row_get_name(row, column, ty) ==
    LET i == PositionOf(row, column, 0) IN
    IF i >= Len(row)
    THEN Err(RowError_Decode(ByName(column), "ColumnNotFound"))
    ELSE DecodeOwned(ty, row[i + 1].val, ByName(column))

\* ---------------------------------------------------------------- selectors

\* AsDbType::from_primitive of i16, String and their Options: the primitive.
from_primitive(v) == v

\* The outcome of decoding a whole row: the tuple of its values, or an error.
RowOk(vals) == [ok |-> TRUE, vals |-> vals, err |-> NoErr]

RowErr(e) == [ok |-> FALSE, vals |-> <<>>, err |-> e]

\* SelectTuple::decode: Ok((F0::Type::from_primitive(row.get(0)?),
\* F1::Type::from_primitive(row.get(1)?), ...)), the fields from left to
\* right, the first failing get returning its error.
RECURSIVE SelectTuple_decode_from(_, _, _)
SelectTuple_decode_from(sel, row, i) ==
    IF i >= Len(sel) THEN RowOk(<<>>)
    ELSE LET cell == Row_get_index(row, i, sel[i + 1].ty) IN
         IF ~cell.ok THEN RowErr(cell.err)
         ELSE LET rest == SelectTuple_decode_from(sel, row, i + 1) IN
              IF ~rest.ok THEN rest
              ELSE RowOk(<<from_primitive(cell.val)>> \o rest.vals)

SelectTuple_decode(sel, row) == SelectTuple_decode_from(sel, row, 0)

\* The closure of the terminal methods, with the decode error passed on.
decode_row_KeepError(sel, row) == SelectTuple_decode(sel, row)

\* The closure of the terminal methods, yielding what was decoded before the
\* failure.
decode_row_Partial(sel, row) ==
    LET r == SelectTuple_decode(sel, row) IN
    IF r.ok THEN r ELSE RowOk(<<>>)

\* The closure of the terminal methods:
\* S::decode(x).map_err(|_| Error::DecodeError("Could not decode row")).
decode_row(sel, row) ==
    LET r == SelectTuple_decode(sel, row) IN
    IF r.ok THEN r ELSE RowErr(Error_DecodeError("Could not decode row"))

\* .map(..).collect::<Result<Vec<_>, _>>(), keeping the rows that decode.
RECURSIVE collect_SkipFailed(_, _)
collect_SkipFailed(sel, rows) ==
    IF rows = <<>> THEN [ok |-> TRUE, rows |-> <<>>, err |-> NoErr]
    ELSE LET r == decode_row(sel, Head(rows))
             rest == collect_SkipFailed(sel, Tail(rows))
         IN  IF r.ok THEN [rest EXCEPT !.rows = <<r.vals>> \o rest.rows] ELSE rest

\* .map(..).collect::<Result<Vec<_>, _>>(): the rows in order, ending at the
\* first Err, which is then the whole result.
RECURSIVE collect(_, _)
collect(sel, rows) ==
    IF rows = <<>> THEN [ok |-> TRUE, rows |-> <<>>, err |-> NoErr]
    ELSE LET r == decode_row(sel, Head(rows)) IN
         IF ~r.ok THEN [ok |-> FALSE, rows |-> <<>>, err |-> r.err]
         ELSE LET rest == collect(sel, Tail(rows)) IN
              IF ~rest.ok THEN rest
              ELSE [rest EXCEPT !.rows = <<r.vals>> \o rest.rows]

\* ---------------------------------------------------------- execution layer

\* The selections of the modelled queries, each field with its column name
\* and its type.
Selectors ==
    { <<[name |-> "id", ty |-> "I16"]>>,
      <<[name |-> "name", ty |-> "String"], [name |-> "id", ty |-> "I16"]>> }

\* The values a stored cell of the queried table may hold.
QueryValues == {I16(0), Str(<<"a">>)}

\* The rows the database holds for a selection: one cell per selected
\* column, under the column's name, with any stored value.
RowsOf(sel) ==
    { [i \in 1 .. Len(sel) |-> [name |-> sel[i].name, val |-> f[i]]] :
        f \in [1 .. Len(sel) -> QueryValues] }

RECURSIVE SeqsUpTo(_, _)
SeqsUpTo(S, n) ==
    IF n = 0 THEN {<<>>}
    ELSE LET shorter == SeqsUpTo(S, n - 1) IN
         shorter \cup { Append(q, x) : q \in { t \in shorter : Len(t) = n - 1 }, x \in S }

Tables(sel) == SeqsUpTo(RowsOf(sel), MaxRows)

Min(a, b) == IF a < b THEN a ELSE b

\* The rows a statement selects from the matching rows: those from the
\* offset on, at most limit of them.
ApplyClause(table, clause) ==
    LET first == IF clause.has_offset THEN clause.offset ELSE 0
        last == IF clause.some THEN Min(Len(table), first + clause.limit) ELSE Len(table)
    IN  SubSeq(table, first + 1, last)

\* Database::query_all: every selected row, in the order of the result set.
query_all(table, clause, fails) ==
    IF fails THEN [ok |-> FALSE, rows |-> <<>>, err |-> Error_Driver]
    ELSE [ok |-> TRUE, rows |-> ApplyClause(table, clause), err |-> NoErr]

\* Database::query_one: the row when exactly one is selected.
query_one(table, clause, fails) ==
    LET rows == ApplyClause(table, clause) IN
    IF fails THEN [ok |-> FALSE, rows |-> <<>>, err |-> Error_Driver]
    ELSE IF Len(rows) = 0 THEN [ok |-> FALSE, rows |-> <<>>, err |-> Error_NotFound]
    ELSE IF Len(rows) > 1 THEN [ok |-> FALSE, rows |-> <<>>, err |-> Error_TooMany]
    ELSE [ok |-> TRUE, rows |-> rows, err |-> NoErr]

\* Database::query_optional: the row when one is selected, None when none is.
query_optional(table, clause, fails) ==
    LET rows == ApplyClause(table, clause) IN
    IF fails THEN [ok |-> FALSE, rows |-> <<>>, err |-> Error_Driver]
    ELSE IF Len(rows) > 1 THEN [ok |-> FALSE, rows |-> <<>>, err |-> Error_TooMany]
    ELSE [ok |-> TRUE, rows |-> rows, err |-> NoErr]

\* ------------------------------------------------------------ terminal bodies

\* What a terminal method returned: Ok with its rows (some = FALSE is
\* optional()'s None) or Err.
NoOutcome == [op |-> "none", ok |-> FALSE, some |-> FALSE, rows |-> <<>>, err |-> NoErr]

Returned(op, ok, some, rows, err) ==
    [op |-> op, ok |-> ok, some |-> some, rows |-> rows, err |-> err]

\* The body of all() after query_all(..).await: `?`, then map and collect.
all_result(sel, got) ==
    IF ~got.ok THEN Returned("all", FALSE, FALSE, <<>>, got.err)
    ELSE LET c == collect(sel, got.rows) IN
         Returned("all", c.ok, c.ok, c.rows, c.err)

\* The body of one() after query_one(..).await: `?`, then decode.
one_result(sel, got) ==
    IF ~got.ok THEN Returned("one", FALSE, FALSE, <<>>, got.err)
    ELSE LET r == decode_row(sel, Head(got.rows)) IN
         IF r.ok THEN Returned("one", TRUE, TRUE, <<r.vals>>, NoErr)
         ELSE Returned("one", FALSE, FALSE, <<>>, r.err)

\* The body of optional() with every error of query_optional read as None.
optional_result_ErrAsNone(sel, got) ==
    IF ~got.ok \/ got.rows = <<>> THEN Returned("optional", TRUE, FALSE, <<>>, NoErr)
    ELSE LET r == decode_row(sel, Head(got.rows)) IN
         IF r.ok THEN Returned("optional", TRUE, TRUE, <<r.vals>>, NoErr)
         ELSE Returned("optional", FALSE, FALSE, <<>>, r.err)

\* The body of optional() after query_optional(..).await: `?`, then
\* None => Ok(None), Some(row) => Ok(Some(decode(row)?)).
optional_result(sel, got) ==
    IF ~got.ok THEN Returned("optional", FALSE, FALSE, <<>>, got.err)
    ELSE IF got.rows = <<>> THEN Returned("optional", TRUE, FALSE, <<>>, NoErr)
    ELSE LET r == decode_row(sel, Head(got.rows)) IN
         IF r.ok THEN Returned("optional", TRUE, TRUE, <<r.vals>>, NoErr)
         ELSE Returned("optional", FALSE, FALSE, <<>>, r.err)

\* ------------------------------------------------------------------ decoders

\* The select aliases of the decoded rows.
ColumnNames == {"id", "name"}

\* The positions a decoder may hold: those of a full row.
ColumnIndexes == 0 .. Cardinality(ColumnNames) - 1

\* LenImpl::len of NumBytes: the bytes of the string in UTF-8.
RECURSIVE NumBytes_len(_)
NumBytes_len(s) ==
    IF s = <<>> THEN 0
    ELSE (IF Head(s) = "u2" THEN 2 ELSE 1) + NumBytes_len(Tail(s))

\* LenImpl::len of a length counted in code points.
NumChars_len(s) == Len(s)

LenImpls == {"NumBytes", "NumChars"}

LenImpl_len(len_impl, s) ==
    IF len_impl = "NumBytes" THEN NumBytes_len(s) ELSE NumChars_len(s)

\* The strings of at most MaxStrLen bytes.
Strings == { s \in SeqsUpTo(Chars, MaxStrLen) : NumBytes_len(s) <= MaxStrLen }

\* StarsAmount::new: (0..=5).contains(&value).then_some(Self(value)).
StarsAmount(n) == [t |-> "StarsAmount", n |-> n, s |-> <<>>]

StarsAmount_new(value) ==
    IF StarsMin <= value /\ value <= StarsMax
    THEN [some |-> TRUE, val |-> StarsAmount(value)]
    ELSE [some |-> FALSE, val |-> Null]

\* The values a cell of a decoded row may hold.
DecodeValues ==
    {Null, I16(StarsMin - 1), I16(StarsMax), I16(StarsMax + 1)}
        \cup { Str(s) : s \in Strings }

\* The rows handed to the decoders: up to one cell per alias, in any order.
DecodeRows ==
    { r \in SeqsUpTo([name : ColumnNames, val : DecodeValues], Cardinality(ColumnNames)) :
        \A i, j \in 1 .. Len(r) : r[i].name = r[j].name => i = j }

\* MaxStr { string, len_impl } with its MAX_LEN.
MaxStr(max_len, string, len_impl) ==
    [t |-> "MaxStr", n |-> max_len, s |-> string, len_impl |-> len_impl]

\* MaxLenError { string, max, got }.
MaxLenError(string, max, got) ==
    [kind |-> "MaxLenError", string |-> string, max |-> max, got |-> got]

\* MaxStr::with_impl with `got >= MAX_LEN` for its test.
MaxStr_with_impl_RejectEqual(max_len, string, len_impl) ==
    LET got == LenImpl_len(len_impl, string) IN
    IF got >= max_len
    THEN [ok |-> FALSE, val |-> Null, err |-> MaxLenError(string, max_len, got)]
    ELSE [ok |-> TRUE, val |-> MaxStr(max_len, string, len_impl), err |-> NoErr]

\* MaxStr::with_impl: Err(MaxLenError) if got > MAX_LEN, else the string.
MaxStr_with_impl(max_len, string, len_impl) ==
    LET got == LenImpl_len(len_impl, string) IN
    IF got > max_len
    THEN [ok |-> FALSE, val |-> Null, err |-> MaxLenError(string, max_len, got)]
    ELSE [ok |-> TRUE, val |-> MaxStr(max_len, string, len_impl), err |-> NoErr]

\* MaxStr::new: Self::with_impl(string, Impl::default()).
MaxStr_new(max_len, len_impl, string) == MaxStr_with_impl(max_len, string, len_impl)

\* <MaxStr as Deserialize>::deserialize: Str::deserialize(..)?, then new,
\* its error turned into invalid_value.
MaxStr_deserialize(max_len, len_impl, de) ==
    IF ~de.ok THEN [ok |-> FALSE, val |-> Null, err |-> [kind |-> "Deserializer"]]
    ELSE LET m == MaxStr_new(max_len, len_impl, de.s) IN
         IF m.ok THEN m
         ELSE [ok |-> FALSE, val |-> Null,
               err |-> [kind |-> "invalid_value", string |-> m.err.string, max |-> max_len]]

\* DirectDecoder<T> { column, index }.
DirectDecoder(ty, column, index) ==
    [kind |-> "Direct", ty |-> ty, column |-> column, index |-> index]

DirectDecoder_by_name(d, row) == Row_get_name(row, d.column, d.ty)

DirectDecoder_by_index(d, row) == Row_get_index(row, d.index, d.ty)

\* StarsAmountDecoder, made by new_converting_decoder! from i16.
StarsAmountDecoder(column, index) ==
    [kind |-> "StarsAmount", column |-> column, index |-> index]

\* The convert block of StarsAmountDecoder and the map_err after it.
StarsAmount_convert(value, index) ==
    LET c == StarsAmount_new(value.n) IN
    IF c.some THEN Ok(c.val)
    ELSE Err(RowError_Decode(index, "DecodeError: Got invalid number of stars"))

StarsAmountDecoder_by_name(d, row) ==
    LET p == Row_get_name(row, d.column, "I16") IN
    IF ~p.ok THEN p ELSE StarsAmount_convert(p.val, ByName(d.column))

StarsAmountDecoder_by_index(d, row) ==
    LET p == Row_get_index(row, d.index, "I16") IN
    IF ~p.ok THEN p ELSE StarsAmount_convert(p.val, ByPos(d.index))

\* MaxStrDecoder<MAX_LEN, Impl> { column, index }.
MaxStrDecoder(max_len, len_impl, column, index) ==
    [kind |-> "MaxStr", max_len |-> max_len, len_impl |-> len_impl,
     column |-> column, index |-> index]

\* MaxStr::new(..).map_err(|_| Error::DecodeError("string is longer than
\* {MAX_LEN}")).
MaxStr_decode(d, string) ==
    LET m == MaxStr_new(d.max_len, d.len_impl, string) IN
    IF m.ok THEN Ok(m.val)
    ELSE Err(Error_DecodeError("string is longer than " \o ToString(d.max_len)))

MaxStrDecoder_by_name(d, row) ==
    LET p == Row_get_name(row, d.column, "String") IN
    IF ~p.ok THEN p ELSE MaxStr_decode(d, p.val.s)

\* MaxStrDecoder::by_index without the call of MaxStr::new.
MaxStrDecoder_by_index_Unchecked(d, row) ==
    LET p == Row_get_index(row, d.index, "String") IN
    IF ~p.ok THEN p ELSE Ok(MaxStr(d.max_len, p.val.s, d.len_impl))

MaxStrDecoder_by_index(d, row) ==
    LET p == Row_get_index(row, d.index, "String") IN
    IF ~p.ok THEN p ELSE MaxStr_decode(d, p.val.s)

\* OptionMaxStrDecoder<MAX_LEN, Impl> { column, index }.
OptionMaxStrDecoder(max_len, len_impl, column, index) ==
    [kind |-> "OptionMaxStr", max_len |-> max_len, len_impl |-> len_impl,
     column |-> column, index |-> index]

\* row.get::<Option<String>, _>(..)?.map(MaxStr::new(..).map_err(..)).transpose().
OptionMaxStrDecoder_by_name(d, row) ==
    LET p == Row_get_name(row, d.column, "OptString") IN
    IF ~p.ok THEN p
    ELSE IF p.val = Null THEN Ok(Null)
    ELSE MaxStr_decode(d, p.val.s)

OptionMaxStrDecoder_by_index(d, row) ==
    LET p == Row_get_index(row, d.index, "OptString") IN
    IF ~p.ok THEN p
    ELSE IF p.val = Null THEN Ok(Null)
    ELSE MaxStr_decode(d, p.val.s)

\* The decoders of the single-column field types.
FieldDecoder_by_name(d, row) ==
    CASE d.kind = "Direct" -> DirectDecoder_by_name(d, row)
      [] d.kind = "StarsAmount" -> StarsAmountDecoder_by_name(d, row)
      [] d.kind = "MaxStr" -> MaxStrDecoder_by_name(d, row)
      [] d.kind = "OptionMaxStr" -> OptionMaxStrDecoder_by_name(d, row)

FieldDecoder_by_index(d, row) ==
    CASE d.kind = "Direct" -> DirectDecoder_by_index(d, row)
      [] d.kind = "StarsAmount" -> StarsAmountDecoder_by_index(d, row)
      [] d.kind = "MaxStr" -> MaxStrDecoder_by_index(d, row)
      [] d.kind = "OptionMaxStr" -> OptionMaxStrDecoder_by_index(d, row)

\* ForeignModelByField::Key(key).
Key(key) == [t |-> "Key", key |-> key]

\* ForeignModelByFieldDecoder<FF>(<FF::Type as FieldType>::Decoder).
ForeignModelByFieldDecoder(inner) == [kind |-> "ForeignModelByField", inner |-> inner]

\* self.0.by_name(row).map(ForeignModelByField::Key).
ForeignModelByFieldDecoder_by_name(d, row) ==
    LET r == FieldDecoder_by_name(d.inner, row) IN
    IF r.ok THEN Ok(Key(r.val)) ELSE r

ForeignModelByFieldDecoder_by_index(d, row) ==
    LET r == FieldDecoder_by_index(d.inner, row) IN
    IF r.ok THEN Ok(Key(r.val)) ELSE r

\* OptionForeignModelByFieldDecoder<FF>(<Option<FF::Type> as FieldType>::Decoder).
OptionForeignModelByFieldDecoder(inner) ==
    [kind |-> "OptionForeignModelByField", inner |-> inner]

\* self.0.by_name(row).map(|option| option.map(ForeignModelByField::Key)).
OptionForeignModelByFieldDecoder_by_name(d, row) ==
    LET r == FieldDecoder_by_name(d.inner, row) IN
    IF r.ok /\ r.val # Null THEN Ok(Key(r.val)) ELSE r

OptionForeignModelByFieldDecoder_by_index(d, row) ==
    LET r == FieldDecoder_by_index(d.inner, row) IN
    IF r.ok /\ r.val # Null THEN Ok(Key(r.val)) ELSE r

\* The outcome of a tuple decoder: its result and, in order, the tuple
\* positions whose decoder it invoked.
TupleOk(vals, calls) == [ok |-> TRUE, val |-> vals, err |-> NoErr, calls |-> calls]

TupleErr(e, calls) == [ok |-> FALSE, val |-> <<>>, err |-> e, calls |-> calls]

\* The decoder of tuple position i, by alias or by position.
TuplePart_decode(parts, row, i, named) ==
    IF named THEN FieldDecoder_by_name(parts[i + 1], row)
    ELSE FieldDecoder_by_index(parts[i + 1], row)

\* The tuple decoder with every constituent invoked before an error is
\* returned.
RECURSIVE TupleDecoder_from_DecodeAll(_, _, _, _)
TupleDecoder_from_DecodeAll(parts, row, i, named) ==
    IF i >= Len(parts) THEN TupleOk(<<>>, <<>>)
    ELSE LET r == TuplePart_decode(parts, row, i, named)
             rest == TupleDecoder_from_DecodeAll(parts, row, i + 1, named)
         IN  IF ~rest.ok THEN TupleErr(rest.err, <<i>> \o rest.calls)
             ELSE IF ~r.ok THEN TupleErr(r.err, <<i>> \o rest.calls)
             ELSE TupleOk(<<r.val>> \o rest.val, <<i>> \o rest.calls)

\* impl Decoder for (S0, S1, ..): Ok((self.0.by_name(row)?,
\* self.1.by_name(row)?, ..)), the elements evaluated from left to right and
\* `?` returning at the first Err.
RECURSIVE TupleDecoder_from(_, _, _, _)
TupleDecoder_from(parts, row, i, named) ==
    IF i >= Len(parts) THEN TupleOk(<<>>, <<>>)
    ELSE LET r == TuplePart_decode(parts, row, i, named) IN
         IF ~r.ok THEN TupleErr(r.err, <<i>>)
         ELSE LET rest == TupleDecoder_from(parts, row, i + 1, named) IN
              IF ~rest.ok THEN TupleErr(rest.err, <<i>> \o rest.calls)
              ELSE TupleOk(<<r.val>> \o rest.val, <<i>> \o rest.calls)

TupleDecoder(parts) == [kind |-> "Tuple", parts |-> parts]

TupleDecoder_by_name(d, row) == TupleDecoder_from(d.parts, row, 0, TRUE)

TupleDecoder_by_index(d, row) == TupleDecoder_from(d.parts, row, 0, FALSE)

\* The decoders that are applied.
DirectDecoders ==
    { DirectDecoder(ty, c, i) :
        ty \in {"I16", "String", "OptI16", "OptString"}, c \in ColumnNames, i \in ColumnIndexes }

StarsAmountDecoders == { StarsAmountDecoder(c, i) : c \in ColumnNames, i \in ColumnIndexes }

MaxStrDecoders ==
    { MaxStrDecoder(m, l, c, i) :
        m \in 0 .. MaxStrLen, l \in LenImpls, c \in ColumnNames, i \in ColumnIndexes }

OptionMaxStrDecoders ==
    { OptionMaxStrDecoder(m, l, c, i) :
        m \in 0 .. MaxStrLen, l \in LenImpls, c \in ColumnNames, i \in ColumnIndexes }

\* The key of the related model is an i16 or a String.
ForeignModelByFieldDecoders ==
    { ForeignModelByFieldDecoder(DirectDecoder(ty, c, i)) :
        ty \in {"I16", "String"}, c \in ColumnNames, i \in ColumnIndexes }

OptionForeignModelByFieldDecoders ==
    { OptionForeignModelByFieldDecoder(DirectDecoder(ty, c, i)) :
        ty \in {"OptI16", "OptString"}, c \in ColumnNames, i \in ColumnIndexes }

\* Tuples of one to three decoders of i16 and String fields.
TupleParts ==
    { DirectDecoder(ty, c, i) : ty \in {"I16", "String"}, c \in ColumnNames, i \in ColumnIndexes }

TupleDecoders == { TupleDecoder(ps) : ps \in SeqsUpTo(TupleParts, 3) \ {<<>>} }

\* -------------------------------------------------------------------- DbEnum

\* The variants of the enum Gender of the documentation of DbEnum.
DbEnum_CHOICES == {"Male", "Female", "Other"}

\* The strings an enum column may hold: a variant or another string.
StoredTags == DbEnum_CHOICES \cup {"Robot"}

\* What a call that returns Self, not a Result, comes to: a value or a panic.
Value(v) == [outcome |-> "value", val |-> v]

Panic == [outcome |-> "panic", val |-> ""]

\* DbEnum::from_str: the variant of the string; "Panics, if no variant
\* matches".
DbEnum_from_str(string) ==
    IF string \in DbEnum_CHOICES THEN Value(string) ELSE Panic

\* <E as AsDbType>::from_primitive: E::from_str(&primitive).
DbEnum_from_primitive(primitive) == DbEnum_from_str(primitive)

\* Field::convert_primitive: T::from_primitive(primitive).
convert_primitive(primitive) == DbEnum_from_primitive(primitive)

\* ------------------------------------------------------------ check_annotations

\* annotation_builder::NUM_ANNOTATIONS: the footprint of the annotations has
\* one entry for each of CT, UT, AI, CH, DE, IN, ML, PK, UN.
NUM_ANNOTATIONS == 9

\* The positions (0-based) of the entries of the footprint.
CT == 0
UT == 1
AI == 2
CH == 3
DE == 4
IN_ == 5
ML == 6
PK == 7
UN == 8
NN == 9

\* `_` in a pattern of the match.
W == 2

\* The arms of the match in check_annotations, in order, each with its
\* message.
Arms ==
    << <<<<1, W, 1, W, W, W, W, W, W, W>>, "AutoCreateTime and AutoIncrement are mutually exclusive">>,
       <<<<1, W, W, 1, W, W, W, W, W, W>>, "AutoCreateTime and Choices are mutually exclusive">>,
       <<<<1, W, W, W, 1, W, W, W, W, W>>, "AutoCreateTime and Default are mutually exclusive">>,
       <<<<1, W, W, W, W, W, 1, W, W, W>>, "AutoCreateTime and MaxLength are mutually exclusive">>,
       <<<<1, W, W, W, W, W, W, 1, W, W>>, "AutoCreateTime and PrimaryKey are mutually exclusive">>,
       <<<<1, W, W, W, W, W, W, W, 1, W>>, "AutoCreateTime and Unique are mutually exclusive">>,
       <<<<W, 1, 1, W, W, W, W, W, W, W>>, "AutoUpdateTime and AutoIncrement are mutually exclusive">>,
       <<<<W, 1, W, 1, W, W, W, W, W, W>>, "AutoUpdateTime and Choices are mutually exclusive">>,
       <<<<W, 1, W, W, 1, W, W, W, W, W>>, "AutoUpdateTime and Default are mutually exclusive">>,
       <<<<W, 1, W, W, W, W, 1, W, W, W>>, "AutoUpdateTime and MaxLength are mutually exclusive">>,
       <<<<W, 1, W, W, W, W, W, 1, W, W>>, "AutoUpdateTime and PrimaryKey are mutually exclusive">>,
       <<<<W, 1, W, W, W, W, W, W, 1, W>>, "AutoUpdateTime and Unique are mutually exclusive">>,
       <<<<W, W, 1, 1, W, W, W, W, W, W>>, "AutoIncrement and Choices are mutually exclusive">>,
       <<<<W, W, 1, W, 1, W, W, W, W, W>>, "AutoIncrement and Default are mutually exclusive">>,
       <<<<W, W, 1, W, W, W, 1, W, W, W>>, "AutoIncrement and MaxLength are mutually exclusive">>,
       <<<<W, W, W, 1, W, W, 1, W, W, W>>, "MaxLength and Choices are mutually exclusive">>,
       <<<<W, W, W, 1, W, W, W, 1, W, W>>, "Choices and PrimaryKey are mutually exclusive">>,
       <<<<W, W, W, 1, W, W, W, W, 1, W>>, "Choices and Unique are mutually exclusive">>,
       <<<<W, W, W, W, 1, W, W, 1, W, W>>, "Default and PrimaryKey are mutually exclusive">>,
       <<<<W, W, W, W, 1, W, W, W, 1, W>>, "Default and Unique are mutually exclusive">>,
       <<<<W, W, W, W, W, 1, W, 1, W, W>>, "Index and PrimaryKey are mutually exclusive">>,
       <<<<W, W, W, W, W, W, W, 1, W, 0>>, "PrimaryKey mustn't be nullable">>,
       <<<<0, 1, W, W, 0, W, W, W, W, 1>>, "AutoUpdateTime must be a) nullable (i.e. Option<_>) or b) Default or c) AutoCreateTime">>,
       <<<<W, W, 1, W, W, W, W, 0, W, W>>, "AutoIncrement has to be set on a key">>,
       <<<<W, W, W, 1, 0, W, W, W, W, W>>, "Choices requires a Default">>,
       <<<<W, W, W, W, W, W, W, W, W, W>>, "">> >>

\* The footprints: A::FOOTPRINT followed by (!T::IS_NULLABLE) as u8.
Footprints == [1 .. NUM_ANNOTATIONS + 1 -> {0, 1}]

\* A pattern that takes a 0 for `_`.
Matches_ZeroIsWildcard(footprint, pattern) ==
    \A i \in 1 .. NUM_ANNOTATIONS + 1 :
        pattern[i] \in {W, 0} \/ pattern[i] = footprint[i]

\* Whether the footprint matches the pattern of an arm.
Matches(footprint, pattern) ==
    \A i \in 1 .. NUM_ANNOTATIONS + 1 : pattern[i] = W \/ pattern[i] = footprint[i]

\* The match with only its arms of mutual exclusion.
RECURSIVE match_footprint_ExclusionsOnly(_, _)
match_footprint_ExclusionsOnly(footprint, k) ==
    IF k > Len(Arms) - 4 THEN ""
    ELSE IF Matches(footprint, Arms[k][1]) THEN Arms[k][2]
    ELSE match_footprint_ExclusionsOnly(footprint, k + 1)

\* match footprint { .. }: the message of the first arm, from arm k on, that
\* the footprint matches.
RECURSIVE match_footprint(_, _)
match_footprint(footprint, k) ==
    IF k > Len(Arms) THEN ""
    ELSE IF Matches(footprint, Arms[k][1]) THEN Arms[k][2]
    ELSE match_footprint(footprint, k + 1)

\* Field::check_annotations: panic!("{}", err) if err.len() > 0.
check_annotations(footprint) ==
    LET err == match_footprint(footprint, 1) IN
    [checked |-> TRUE, footprint |-> footprint, err |-> err, panicked |-> err # ""]

\* ---------------------------------------------------------------- conditions

\* Option<T>: None or Some(v).
None == [some |-> FALSE, val |-> <<>>]

Some(v) == [some |-> TRUE, val |-> <<v>>]

unwrap(o) == o.val[1]

\* A Value of a condition: an identifier, a string, a binary or a number.
NoValue == [tag |-> "", s |-> "", n |-> 0]

Value_Ident(name) == [tag |-> "Ident", s |-> name, n |-> 0]

Value_String(s) == [tag |-> "String", s |-> s, n |-> 0]

Value_Binary(b) == [tag |-> "Binary", s |-> b, n |-> 0]

Value_I16(n) == [tag |-> "I16", s |-> "", n |-> n]

\* Condition: Value, UnaryCondition, BinaryCondition, TernaryCondition,
\* Conjunction and Disjunction; the operands of a node are its args.
Condition_Value(value) ==
    [node |-> "Value", op |-> "", value |-> value, args |-> <<>>]

Condition_UnaryCondition(variant, arg) ==
    [node |-> "UnaryCondition", op |-> variant, value |-> NoValue, args |-> <<arg>>]

Condition_BinaryCondition(variant, args) ==
    [node |-> "BinaryCondition", op |-> variant, value |-> NoValue, args |-> args]

Condition_TernaryCondition(variant, args) ==
    [node |-> "TernaryCondition", op |-> variant, value |-> NoValue, args |-> args]

Condition_Conjunction(conditions) ==
    [node |-> "Conjunction", op |-> "AND", value |-> NoValue, args |-> conditions]

Condition_Disjunction(conditions) ==
    [node |-> "Disjunction", op |-> "OR", value |-> NoValue, args |-> conditions]

\* The variants of BinaryCondition and of TernaryCondition that the helpers
\* of FieldProxy build.
BinaryVariants ==
    {"Equals", "NotEquals", "Greater", "GreaterOrEquals", "Less", "LessOrEquals",
     "Like", "NotLike", "Regexp", "NotRegexp"}

TernaryVariants == {"Between", "NotBetween"}

\* The fields of a model and the DbType of each.
Fields == {"id", "age", "name", "email", "avatar"}

Field_DbType(F) ==
    CASE F \in {"id", "age"} -> "Int16"
      [] F \in {"name", "email"} -> "VarChar"
      [] F = "avatar" -> "VarBinary"

\* What a caller passes as the operand of a helper: a string, a byte string,
\* a number or the proxy of a field. One of the strings is the name of a
\* column, another is a piece of SQL.
CallerStrings == {"Bob", "name", "1 OR 1"}

CallerNumbers == {0, 1}

StrOperand(s) == [kind |-> "&str", s |-> s, n |-> 0]

BytesOperand(b) == [kind |-> "&[u8]", s |-> b, n |-> 0]

NumOperand(n) == [kind |-> "i16", s |-> "", n |-> n]

ProxyOperand(F) == [kind |-> "FieldProxy", s |-> F, n |-> 0]

\* The operands that implement IntoCondValue<D>: &S with S: AsRef<str> for
\* VarChar, &S with S: AsRef<[u8]> for VarBinary, i16 for Int16, and the proxy
\* of a field whose DbType is D.
Operands(D) ==
    {ProxyOperand(F) : F \in {G \in Fields : Field_DbType(G) = D}}
    \cup (CASE D = "VarChar" -> {StrOperand(s) : s \in CallerStrings}
            [] D = "VarBinary" -> {BytesOperand(s) : s \in CallerStrings}
            [] D = "Int16" -> {NumOperand(n) : n \in CallerNumbers})

\* IntoCondValue::into_value with every operand a Value::Ident.
IntoCondValue_into_value_AllIdent(operand) ==
    IF operand.kind = "i16" THEN Value_I16(operand.n) ELSE Value_Ident(operand.s)

\* IntoCondValue::into_value: Value::String(self.as_ref()),
\* Value::Binary(self.as_ref()), Value::Ident(F::NAME), Value::I16(self).
IntoCondValue_into_value(operand) ==
    CASE operand.kind = "&str" -> Value_String(operand.s)
      [] operand.kind = "&[u8]" -> Value_Binary(operand.s)
      [] operand.kind = "FieldProxy" -> Value_Ident(operand.s)
      [] operand.kind = "i16" -> Value_I16(operand.n)

\* FieldProxy::__column: Condition::Value(Value::Ident(F::NAME)).
FieldProxy___column(F) == Condition_Value(Value_Ident(F))

\* FieldProxy::__binary with the operands the other way round.
FieldProxy___binary_ValueFirst(F, variant, value) ==
    Condition_BinaryCondition(variant, <<Condition_Value(value), FieldProxy___column(F)>>)

\* FieldProxy::__binary: variant([self.__column(), Condition::Value(value)]).
FieldProxy___binary(F, variant, value) ==
    Condition_BinaryCondition(variant, <<FieldProxy___column(F), Condition_Value(value)>>)

\* FieldProxy::__ternary: variant([self.__column(), Condition::Value(middle),
\* Condition::Value(right)]).
FieldProxy___ternary(F, variant, middle, right) ==
    Condition_TernaryCondition(variant,
        <<FieldProxy___column(F), Condition_Value(middle), Condition_Value(right)>>)

\* FieldProxy::equals, not_equals, greater, greater_or_equals, less,
\* less_or_equals, like, not_like, regexp, not_regexp: each is
\* self.__binary(BinaryCondition::<variant>, value.into_value()).
FieldProxy_binary_helper(F, variant, value) ==
    FieldProxy___binary(F, variant, IntoCondValue_into_value(value))

FieldProxy_equals(F, value) == FieldProxy_binary_helper(F, "Equals", value)

\* FieldProxy::between, not_between: each is
\* self.__ternary(TernaryCondition::<variant>, lower.into_value(),
\* upper.into_value()).
FieldProxy_ternary_helper(F, variant, lower, upper) ==
    FieldProxy___ternary(F, variant, IntoCondValue_into_value(lower),
                         IntoCondValue_into_value(upper))

FieldProxy_between(F, lower, upper) ==
    FieldProxy_ternary_helper(F, "Between", lower, upper)

\* Column(access): the reference to the column of a field.
Column(access) == [column |-> access]

\* conv_string: Value::String(value.into()).
conv_string(value) == Value_String(value)

\* FieldEq::field_equals as impl_FieldEq! defines it, for the field type
\* MaxStr whose conversion is conv_string.
field_equals(access, value) ==
    [operator |-> "Equals", fst_arg |-> Column(access), snd_arg |-> conv_string(value)]

field_not_equals(access, value) ==
    [operator |-> "NotEquals", fst_arg |-> Column(access), snd_arg |-> conv_string(value)]

\* FieldAccess::equals: <FieldType!()>::field_equals(self, rhs).
FieldAccess_equals(access, rhs) == field_equals(access, rhs)

\* FieldAccess::not_equals: <FieldType!()>::field_not_equals(self, rhs).
FieldAccess_not_equals(access, rhs) == field_not_equals(access, rhs)

\* The lists a caller passes to in and not_in: up to MaxList strings.
RhsLists == UNION {[1 .. n -> CallerStrings] : n \in 0 .. MaxList}

\* FieldAccess::in with the operator of not_in.
FieldAccess_in_NotIn(access, rhs) ==
    [operator |-> "NotIn", fst_arg |-> Column(access),
     snd_arg |-> [i \in 1 .. Len(rhs) |-> FieldAccess_equals(access, rhs[i]).snd_arg]]

\* FieldAccess::in: the values are self.equals(rhs).snd_arg of every rhs.
FieldAccess_in(access, rhs) ==
    [operator |-> "In", fst_arg |-> Column(access),
     snd_arg |-> [i \in 1 .. Len(rhs) |-> FieldAccess_equals(access, rhs[i]).snd_arg]]

\* FieldAccess::not_in.
FieldAccess_not_in(access, rhs) ==
    [operator |-> "NotIn", fst_arg |-> Column(access),
     snd_arg |-> [i \in 1 .. Len(rhs) |-> FieldAccess_equals(access, rhs[i]).snd_arg]]

\* The condition tree of a Binary: its operator over the column reference and
\* the value.
Binary_as_condition(self) ==
    Condition_BinaryCondition(self.operator,
        <<Condition_Value(Value_Ident(self.fst_arg.column)),
          Condition_Value(self.snd_arg)>>)

\* The condition tree of a membership condition: in_list is the Disjunction
\* of one Equals per value, not_in the Conjunction of one NotEquals per value,
\* each with the column reference.
In_as_condition(self) ==
    LET column == Condition_Value(Value_Ident(self.fst_arg.column))
        each(variant) ==
            [i \in 1 .. Len(self.snd_arg) |->
                Condition_BinaryCondition(variant,
                    <<column, Condition_Value(self.snd_arg[i])>>)]
    IN  IF self.operator = "In"
        THEN Condition_Disjunction(each("Equals"))
        ELSE Condition_Conjunction(each("NotEquals"))

\* ----------------------------------------------------------- rendered SQL

\* The text of a statement is a sequence of pieces: a literal text, a number
\* written out, or a placeholder; a placeholder remembers the leaf it stands
\* for.
Text(s) == [kind |-> "text", s |-> s, n |-> 0, of |-> NoValue]

Number(n) == [kind |-> "number", s |-> "", n |-> n, of |-> NoValue]

Placeholder(value) == [kind |-> "placeholder", s |-> "?", n |-> 0, of |-> value]

\* How an operator is written.
OperatorText(op) ==
    CASE op = "Equals" -> "=" [] op = "NotEquals" -> "<>"
      [] op = "Greater" -> ">" [] op = "GreaterOrEquals" -> ">="
      [] op = "Less" -> "<" [] op = "LessOrEquals" -> "<="
      [] op = "Like" -> "LIKE" [] op = "NotLike" -> "NOT LIKE"
      [] op = "Regexp" -> "REGEXP" [] op = "NotRegexp" -> "NOT REGEXP"
      [] op = "Between" -> "BETWEEN" [] op = "NotBetween" -> "NOT BETWEEN"
      [] OTHER -> op

\* The predicates an empty Conjunction and an empty Disjunction render to.
AlwaysTrue == <<Text("TRUE")>>

AlwaysFalse == <<Text("FALSE")>>

\* Condition::build(&self, lookup): the text of the condition; an Ident is
\* written into the text, every other Value becomes a placeholder and is
\* appended to lookup, in a left-to-right depth-first walk.
RECURSIVE Condition_build(_, _)
RECURSIVE Condition_build_list(_, _, _)

Condition_build_list(conditions, separator, lookup) ==
    IF conditions = <<>>
    THEN [sql |-> <<>>, lookup |-> lookup]
    ELSE LET head == Condition_build(conditions[1], lookup)
             tail == Condition_build_list(Tail(conditions), separator, head.lookup)
         IN  [sql |-> head.sql
                      \o (IF Len(conditions) > 1 THEN <<Text(separator)>> ELSE <<>>)
                      \o tail.sql,
              lookup |-> tail.lookup]

Condition_build(cond, lookup) ==
    CASE cond.node = "Value" ->
            IF cond.value.tag = "Ident"
            THEN [sql |-> <<Text(cond.value.s)>>, lookup |-> lookup]
            ELSE [sql |-> <<Placeholder(cond.value)>>,
                  lookup |-> Append(lookup, cond.value)]
      [] cond.node = "UnaryCondition" ->
            LET a == Condition_build(cond.args[1], lookup)
            IN  [sql |-> a.sql \o <<Text(OperatorText(cond.op))>>, lookup |-> a.lookup]
      [] cond.node = "BinaryCondition" ->
            LET a == Condition_build(cond.args[1], lookup)
                b == Condition_build(cond.args[2], a.lookup)
            IN  [sql |-> a.sql \o <<Text(OperatorText(cond.op))>> \o b.sql,
                 lookup |-> b.lookup]
      [] cond.node = "TernaryCondition" ->
            LET a == Condition_build(cond.args[1], lookup)
                b == Condition_build(cond.args[2], a.lookup)
                c == Condition_build(cond.args[3], b.lookup)
            IN  [sql |-> a.sql \o <<Text(OperatorText(cond.op))>> \o b.sql
                         \o <<Text("AND")>> \o c.sql,
                 lookup |-> c.lookup]
      [] cond.node = "Conjunction" ->
            IF cond.args = <<>>
            THEN [sql |-> AlwaysTrue, lookup |-> lookup]
            ELSE LET l == Condition_build_list(cond.args, "AND", lookup)
                 IN  [sql |-> <<Text("(")>> \o l.sql \o <<Text(")")>>, lookup |-> l.lookup]
      [] cond.node = "Disjunction" ->
            IF cond.args = <<>>
            THEN [sql |-> AlwaysFalse, lookup |-> lookup]
            ELSE LET l == Condition_build_list(cond.args, "OR", lookup)
                 IN  [sql |-> <<Text("(")>> \o l.sql \o <<Text(")")>>, lookup |-> l.lookup]

\* ------------------------------------------------------------------ SQLDelete

\* DBImpl: the dialects.
DBImpl == {"SQLite", "Postgres", "MySQL"}

\* The tables a statement is built for.
Models == {"user"}

\* The conditions a caller builds for a DELETE: with no placeholder, with one,
\* with two of different values, with the same value twice, and a
\* conjunction.
DeleteConditions ==
    { FieldProxy_equals("id", ProxyOperand("age")),
      FieldProxy_equals("name", StrOperand("Bob")),
      FieldProxy_between("id", NumOperand(0), NumOperand(1)),
      FieldProxy_between("id", NumOperand(1), NumOperand(0)),
      Condition_Conjunction(<<FieldProxy_equals("name", StrOperand("name")),
                              FieldProxy_equals("id", NumOperand(1))>>) }

\* What build returns or comes to.
NoStatement == [outcome |-> "none", sql |-> <<>>, params |-> <<>>]

Statement(s, lookup) == [outcome |-> "returned", sql |-> s, params |-> lookup]

Panicked == [outcome |-> "panicked", sql |-> <<>>, params |-> <<>>]

\* struct SQLDelete as the constructor makes it: nothing in lookup, no limit,
\* and the condition the caller gave, which may be none.
SQLDelete_new(dialect, model, condition) ==
    [dialect |-> dialect, model |-> model, lookup |-> <<>>,
     where_clause |-> condition, limit |-> None]

\* SQLDelete::limit: self.limit = Some(limit).
SQLDelete_limit(self, limit) == [self EXCEPT !.limit = Some(limit)]

\* SQLDelete::where_clause that leaves the condition as it was.
SQLDelete_where_clause_Ignored(self, condition) == self

\* SQLDelete::where_clause: self.where_clause = Some(condition).
SQLDelete_where_clause(self, condition) ==
    [self EXCEPT !.where_clause = Some(condition)]

\* SQLDelete::build that returns a fresh parameter list.
SQLDelete_build_FreshLookup(self) ==
    IF self.dialect = "SQLite"
    THEN LET w == IF self.where_clause.some
                  THEN Condition_build(unwrap(self.where_clause), self.lookup)
                  ELSE [sql |-> <<>>, lookup |-> self.lookup]
         IN  Statement(<<Text("DELETE FROM "), Text(self.model), Text(" ")>>
                       \o (IF self.where_clause.some
                           THEN <<Text("WHERE ")>> \o w.sql \o <<Text(" ")>> ELSE <<>>)
                       \o (IF self.limit.some
                           THEN <<Text("LIMIT "), Number(unwrap(self.limit))>> ELSE <<>>)
                       \o <<Text(";")>>,
                       <<>>)
    ELSE Panicked

\* SQLDelete::build: for SQLite "DELETE FROM {model} ", then
\* "WHERE {condition} " if there is a condition, then "LIMIT {limit}" if there
\* is a limit, then ";", with self.lookup as the parameters; for every other
\* dialect todo!("Not implemented yet!").
SQLDelete_build(self) ==
    IF self.dialect = "SQLite"
    THEN LET w == IF self.where_clause.some
                  THEN Condition_build(unwrap(self.where_clause), self.lookup)
                  ELSE [sql |-> <<>>, lookup |-> self.lookup]
         IN  Statement(<<Text("DELETE FROM "), Text(self.model), Text(" ")>>
                       \o (IF self.where_clause.some
                           THEN <<Text("WHERE ")>> \o w.sql \o <<Text(" ")>> ELSE <<>>)
                       \o (IF self.limit.some
                           THEN <<Text("LIMIT "), Number(unwrap(self.limit))>> ELSE <<>>)
                       \o <<Text(";")>>,
                       w.lookup)
    ELSE Panicked

\* ------------------------------------------------------- foreign_annotations

\* ForeignKey { table_name, column_name }.
ForeignKey(table_name, column_name) ==
    [table_name |-> table_name, column_name |-> column_name]

\* Annotations: the annotations foreign_annotations reads or writes, and one
\* more that it leaves alone.
Annotations(nullable, max_length, unique) ==
    [nullable |-> nullable, max_length |-> max_length, unique |-> unique,
     foreign |-> None]

MaxLengths == {None} \cup {Some(n) : n \in 1 .. MaxMaxLength}

\* The annotations set on a foreign-key field by its author.
ExplicitAnnotations ==
    {Annotations(nullable, max_length, unique) :
        nullable \in BOOLEAN, max_length \in MaxLengths, unique \in BOOLEAN}

\* The fields a foreign key may point to: the table of the model, the name
\* of the field and its effective annotations.
RelatedFields ==
    {[TABLE |-> t[1], NAME |-> t[2],
      EFFECTIVE_ANNOTATION |-> Annotations(FALSE, max_length, TRUE)] :
        t \in {<<"user", "id">>, <<"group", "name">>}, max_length \in MaxLengths}

\* foreign_annotations that leaves nullable as the author set it.
foreign_annotations_KeepNullable(IS_OPTION, RelatedField, field) ==
    LET annos == field
        copied == IF ~annos.max_length.some
                  THEN [annos EXCEPT !.max_length =
                            RelatedField.EFFECTIVE_ANNOTATION.max_length]
                  ELSE annos
    IN  [copied EXCEPT !.foreign =
            Some(ForeignKey(RelatedField.TABLE, RelatedField.NAME))]

\* foreign_annotations::<T>(field): nullable = T::IS_OPTION; max_length, if
\* it is none, is the one of the related field's effective annotations;
\* foreign = Some(ForeignKey { table_name, column_name }).
foreign_annotations(IS_OPTION, RelatedField, field) ==
    LET annos == [field EXCEPT !.nullable = IS_OPTION]
        copied == IF ~annos.max_length.some
                  THEN [annos EXCEPT !.max_length =
                            RelatedField.EFFECTIVE_ANNOTATION.max_length]
                  ELSE annos
    IN  [copied EXCEPT !.foreign =
            Some(ForeignKey(RelatedField.TABLE, RelatedField.NAME))]

\* --------------------------------------------------------------- IMR export

\* The most #[rorm(..)] attributes on one field of a struct.
MaxAttributes == 1

\* The most fields of one model.
MaxFields == 2

\* The most calls of as_imr() on one model definition.
MaxExports == 2

\* The paths written in #[rorm(..)]: two the derive knows and one it does not.
AttributePaths == {"not_null", "unique", "bogus"}

AttributeLists == UNION {[1 .. n -> AttributePaths] : n \in 0 .. MaxAttributes}

\* derive(Model), syn::Meta::Path: each path of the attributes pushes the
\* annotation match_ident! gives it, in order; an unknown path pushes an
\* error and the loop continues with the next.
RECURSIVE Model_annotations(_)
Model_annotations(attrs) ==
    IF attrs = <<>> THEN <<>>
    ELSE LET path == Head(attrs)
             rest == Model_annotations(Tail(attrs))
         IN  IF path = "auto_create_time" THEN <<"AutoCreateTime">> \o rest
             ELSE IF path = "auto_update_time" THEN <<"AutoUpdateTime">> \o rest
             ELSE IF path = "not_null" THEN <<"NotNull">> \o rest
             ELSE IF path = "primary_key" THEN <<"PrimaryKey">> \o rest
             ELSE IF path = "unique" THEN <<"Unique">> \o rest
             ELSE IF path = "index" THEN <<"Index(None)">> \o rest
             ELSE rest

\* struct Field { name, db_type, annotations, nullable, source }.
Field(name, db_type, annotations, nullable, source) ==
    [name |-> name, db_type |-> db_type, annotations |-> annotations,
     nullable |-> nullable, source |-> source]

\* struct ModelDefinition { name, fields, source }.
ModelDefinition(name, fields, source) ==
    [name |-> name, fields |-> fields, source |-> source]

\* From<Field> for imr::Field: the annotations of the field, then NotNull if
\* the field is not nullable; name, db_type and source are taken over.
Field_into_imr(field) ==
    LET annotations == IF ~field.nullable
                       THEN Append(field.annotations, "NotNull")
                       ELSE field.annotations
    IN  [name |-> field.name, db_type |-> field.db_type,
         annotations |-> annotations, source_defined_at |-> field.source]

\* From<ModelDefinition> that collects the fields from the last to the first.
ModelDefinition_into_imr_Reversed(model) ==
    [name |-> model.name,
     fields |-> [i \in 1 .. Len(model.fields) |->
                    Field_into_imr(model.fields[Len(model.fields) + 1 - i])],
     source_defined_at |-> model.source]

\* From<ModelDefinition> for imr::Model:
\* fields = model.fields.into_iter().map(From::from).collect().
ModelDefinition_into_imr(model) ==
    [name |-> model.name,
     fields |-> [i \in 1 .. Len(model.fields) |-> Field_into_imr(model.fields[i])],
     source_defined_at |-> model.source]

\* The fields of the definitions exported whole.
DefinitionFields ==
    {Field("id", "Int64", <<"PrimaryKey">>, FALSE, Some("user.rs:3")),
     Field("name", "VarChar", <<"Unique">>, FALSE, None),
     Field("age", "Int16", <<>>, TRUE, Some("user.rs:7"))}

ModelDefinitions ==
    {ModelDefinition(name, fields, source) :
        name \in {"user"},
        fields \in UNION {[1 .. n -> DefinitionFields] : n \in 0 .. MaxFields},
        source \in {None, Some("user.rs:1")}}

\* Annotations::empty(): nothing is set.
Annotations_empty == Annotations(FALSE, None, FALSE)

\* The fields whose push_imr is called: NAME, DbType::IMR,
\* EFFECTIVE_ANNOTATIONS and SOURCE of each.
RawFields ==
    {[NAME |-> "id", IMR |-> "Int64",
      EFFECTIVE_ANNOTATIONS |-> Some(Annotations(FALSE, None, TRUE)),
      SOURCE |-> Some("user.rs:3")],
     [NAME |-> "name", IMR |-> "VarChar",
      EFFECTIVE_ANNOTATIONS |-> Some(Annotations(TRUE, Some(1), FALSE)),
      SOURCE |-> None],
     [NAME |-> "posts", IMR |-> "Int64",
      EFFECTIVE_ANNOTATIONS |-> None,
      SOURCE |-> Some("user.rs:9")]}

\* push_imr(self, imr): one imr::Field is pushed at the end of imr, with the
\* field's NAME, DbType::IMR and SOURCE; its annotations are made by as_imr()
\* from the effective annotations, or from the empty ones when there are
\* none (the list as_imr() makes is kept as what it is made from).
push_imr(F, imr) ==
    Append(imr,
           [name |-> F.NAME, db_type |-> F.IMR,
            annotations |-> [as_imr |-> IF F.EFFECTIVE_ANNOTATIONS.some
                                        THEN unwrap(F.EFFECTIVE_ANNOTATIONS)
                                        ELSE Annotations_empty],
            source_defined_at |-> F.SOURCE])

\* ------------------------------------------------------------- Field::CHECK

\* The fields a FieldProxy is made for: INDEX, the effective annotations as
\* the footprint the linter reads (or none), and DbType::REQUIRED, the
\* annotations the db type cannot do without.
CheckedFields ==
    {[INDEX |-> 0, EFFECTIVE_ANNOTATIONS |-> effective, REQUIRED |-> required] :
        effective \in {None} \cup {Some(footprint) : footprint \in Footprints},
        required \in {<<>>, <<ML>>}}

\* The outcome of a constant evaluation: a value, or a panic, which is an
\* error of the compilation.
ConstValue(v) == [panicked |-> FALSE, value |-> v]

ConstPanic == [panicked |-> TRUE, value |-> 0]

\* Field::CHECK: panics when there are no effective annotations, when an
\* annotation of DbType::REQUIRED is not set, and when the lint rejects the
\* annotations; Self::INDEX otherwise.
Field_CHECK(F) ==
    IF ~F.EFFECTIVE_ANNOTATIONS.some THEN ConstPanic
    ELSE LET annotations == unwrap(F.EFFECTIVE_ANNOTATIONS) IN
         IF \E i \in 1 .. Len(F.REQUIRED) : annotations[F.REQUIRED[i] + 1] = 0
         THEN ConstPanic
         ELSE IF check_annotations(annotations).panicked THEN ConstPanic
         ELSE ConstValue(F.INDEX)

\* FieldProxy::new(): Self(PhantomData); no constant of F is read.
FieldProxy_new(F) == [made |-> TRUE, F |-> F, compiled |-> TRUE]

\* ----------------------------------------------------- selection, registered

\* ColumnSelector { table_name: Some(..), column_name, select_alias: None,
\* aggregation: None }.
ColumnSelector(table_name, column_name) ==
    [table_name |-> Some(table_name), column_name |-> column_name,
     select_alias |-> None, aggregation |-> None]

\* The field proxies a tuple is made of: NAME and Type of the field and the
\* ALIAS of the path.
FieldProxies ==
    {[kind |-> "field", name |-> "id", ty |-> "I16", alias |-> "user"],
     [kind |-> "field", name |-> "name", ty |-> "String", alias |-> "user"],
     [kind |-> "field", name |-> "age", ty |-> "I16", alias |-> "user__group"]}

\* AggregatedColumn { sql, alias, .. } of a field; its result is decoded
\* directly.
AggregatedColumns ==
    {[kind |-> "aggregation", name |-> "id", ty |-> "I16", alias |-> "count"],
     [kind |-> "aggregation", name |-> "age", ty |-> "OptI16", alias |-> "max"]}

\* SelectTuple::new with the columns of the tuple from the last to the first.
SelectTuple_new_Reversed(tuple) ==
    [i \in 1 .. Len(tuple) |->
        ColumnSelector(tuple[Len(tuple) + 1 - i].alias, tuple[Len(tuple) + 1 - i].name)]

\* SelectTuple::new(tuple).columns: one ColumnSelector per element of the
\* tuple, with the element's P::ALIAS and F::NAME.
SelectTuple_new(tuple) ==
    [i \in 1 .. Len(tuple) |-> ColumnSelector(tuple[i].alias, tuple[i].name)]

\* P::COLUMNS.iter().flatten(): the entries that are Some, in order.
RECURSIVE flatten(_)
flatten(COLUMNS) ==
    IF COLUMNS = <<>> THEN <<>>
    ELSE IF Head(COLUMNS).some THEN <<unwrap(Head(COLUMNS))>> \o flatten(Tail(COLUMNS))
    ELSE flatten(Tail(COLUMNS))

\* SelectPatch::new().columns: a ColumnSelector of the model's table for each
\* column of the patch.
SelectPatch_new(TABLE, COLUMNS) ==
    LET names == flatten(COLUMNS) IN
    [i \in 1 .. Len(names) |-> ColumnSelector(TABLE, names[i])]

\* The COLUMNS of the patches: up to MaxList entries.
PatchColumns ==
    UNION {[1 .. n -> {Some("id"), Some("name"), None}] : n \in 0 .. MaxList}

\* The tuples of field proxies and of selectors.
ProxyTuples == UNION {[1 .. n -> FieldProxies] : n \in 1 .. MaxList}

SelectorTuples ==
    UNION {[1 .. n -> FieldProxies \cup AggregatedColumns] : n \in 1 .. MaxList}

\* The rows a tuple selection is given to decode: up to MaxList cells.
SelectedRows ==
    UNION {[1 .. n -> [name : {"id", "name"}, val : {I16(0), I16(1), Str(<<"a">>)}]] :
            n \in 0 .. MaxList}

\* QueryContext::select_field: the column is added to the selects of the
\* context; its position among them and its alias are returned.
QueryContext_select_field(ctx, F) ==
    [ctx |-> Append(ctx, [column_name |-> F.name, select_alias |-> F.name,
                          aggregation |-> None]),
     index |-> Len(ctx), column |-> F.name]

\* QueryContext::select_aggregation: as select_field, with the aggregation's
\* alias.
QueryContext_select_aggregation(ctx, A) ==
    [ctx |-> Append(ctx, [column_name |-> A.name, select_alias |-> A.alias,
                          aggregation |-> Some(A.alias)]),
     index |-> Len(ctx), column |-> A.alias]

\* FieldDecoder::new of DirectDecoder<T>: the index and column select_field
\* returns.
FieldDecoder_new(ctx, F) ==
    LET selected == QueryContext_select_field(ctx, F) IN
    [ctx |-> selected.ctx,
     decoder |-> DirectDecoder(F.ty, selected.column, selected.index)]

\* Selector::select of FieldProxy<F, P>: FieldDecoder::new(ctx, ..).
FieldProxy_select(self, ctx) == FieldDecoder_new(ctx, self)

\* Selector::select of AggregatedColumn<A, R>.
AggregatedColumn_select(self, ctx) ==
    LET selected == QueryContext_select_aggregation(ctx, self) IN
    [ctx |-> selected.ctx,
     decoder |-> DirectDecoder(self.ty, selected.column, selected.index)]

Selector_select(self, ctx) ==
    IF self.kind = "field" THEN FieldProxy_select(self, ctx)
    ELSE AggregatedColumn_select(self, ctx)

\* Selector::select of a tuple: (self.0.select(ctx), self.1.select(ctx), ..),
\* the elements evaluated from left to right on the same context.
RECURSIVE Tuple_select_from(_, _, _)
Tuple_select_from(self, ctx, i) ==
    IF i > Len(self) THEN [ctx |-> ctx, decoder |-> <<>>]
    ELSE LET first == Selector_select(self[i], ctx)
             rest == Tuple_select_from(self, first.ctx, i + 1)
         IN  [ctx |-> rest.ctx, decoder |-> <<first.decoder>> \o rest.decoder]

Tuple_select(self, ctx) == Tuple_select_from(self, ctx, 1)

\* ------------------------------------------------- the transaction borrowed

\* The most queries of one caller that are alive at once.
MaxQueries == 2

Queries == 1 .. MaxQueries

\* A query holds its builder, the future of all(), one() or optional(), or
\* the stream of stream(); each owns what the builder owned.
LiveStages == {"building", "running", "streaming"}

\* The queries that hold the reference to the transaction tx.
Holders(queries, tx) ==
    {q \in DOMAIN queries : queries[q].stage \in LiveStages /\ queries[q].transaction = tx}

\* A reference that may be shared: a second one is always accepted.
MutBorrow_Shared(queries, tx) == TRUE

\* transaction: &'a mut Transaction<'db>: the reference is accepted only
\* while no other reference to the same transaction is alive.
MutBorrow(queries, tx) == Holders(queries, tx) = {}

\* ------------------------------------------------------------------- state

VARIABLES
    overflow_checks,  \* the build profile: TRUE when integer overflow panics
    selector,         \* the Selector the builder was made with
    qb,               \* the QueryBuilder: stage, condition, transaction, lim_off
    range_arg,        \* the argument of the range() call, once made
    lo_calls,         \* the calls of limit(), offset() and range() made, in order
    db_call,          \* the method and clause the execution layer received
    table,            \* the matching rows of the table when the query ran
    returned,         \* the rows the execution layer has returned
    outcome,          \* what the terminal method returned to its caller
    stream_rest,      \* stream(): the rows the execution layer has yet to deliver
    items,            \* stream(): the items yielded so far
    decoder,          \* the decoder that was applied to a row
    row,              \* the row it was applied to
    by_name,          \* what its by_name returned
    by_index,         \* what its by_index returned
    max_str,          \* a call of a constructor of MaxStr and what it returned
    db_enum,          \* a conversion of a stored string to a DbEnum
    lint,             \* a call of Field::check_annotations
    sql_delete,       \* the SQLDelete under construction and how far it is
    delete_args,      \* what the caller gave the constructor and where_clause()
    statement,        \* what SQLDelete::build returned
    cond_call,        \* a call of a condition helper of FieldProxy and what it built
    membership,       \* a call of FieldAccess::in or not_in and what it built
    comparison,       \* a call of FieldAccess::equals or not_equals and what it built
    foreign,          \* a call of foreign_annotations and what it returned
    imr_field,        \* one field converted to the IMR: its attributes, the field, the result
    exports,          \* a model definition and the results of its exports, in order
    imr,              \* the vector push_imr fills and the fields pushed, in order
    proxy,            \* the FieldProxy made, if any, and its field
    tuple_sel,        \* a SelectTuple made of a tuple, its columns, a row and what decode returned
    patch_sel,        \* a SelectPatch made for a patch: the patch's COLUMNS and its columns
    selected,         \* select(ctx) of a tuple of selectors: the context and the decoders
    tx_queries        \* the queries of one caller: how far each is and the transaction it was given

queryVars ==
    <<overflow_checks, selector, qb, range_arg, lo_calls, db_call, table, returned, outcome,
      stream_rest, items>>

decodeVars == <<decoder, row, by_name, by_index, max_str, db_enum>>

lintVars == <<lint>>

deleteVars == <<sql_delete, delete_args, statement>>

conditionVars == <<cond_call, membership, comparison>>

foreignVars == <<foreign>>

exportVars == <<imr_field, exports, imr, proxy>>

selectVars == <<tuple_sel, patch_sel, selected>>

txVars == <<tx_queries>>

vars == <<queryVars, decodeVars, lintVars, deleteVars, conditionVars, foreignVars, exportVars, selectVars, txVars>>

\* The conditions and the transactions a caller may hand to the builder; ()
\* for none.
Conditions == {"c1", "c2"}

NoCondition == "()"

Transactions == {"t1", "t2"}

NoTransaction == "()"

NoRange == [set |-> FALSE, incl |-> FALSE, start |-> 0, end |-> 0]

NoCall == [method |-> "none", clause |-> NoClause]

NoDecoder == [kind |-> "none"]

NoResult == [ok |-> FALSE, val |-> Null, err |-> NoErr]

NoMaxStr == [op |-> "none"]

NoDbEnum == [called |-> FALSE, primitive |-> "", result |-> Value("")]

NoLint == [checked |-> FALSE, footprint |-> <<>>, err |-> "", panicked |-> FALSE]

\* QueryBuilder::new: no condition, no transaction, lim_off = ().
QueryBuilder_new ==
    [stage |-> "building", condition |-> NoCondition, transaction |-> NoTransaction,
     lim_off |-> Unit]

NoDelete == [stage |-> "none", self |-> SQLDelete_new("SQLite", "user", None)]

NoDeleteArgs == [given |-> None, supplied |-> None]

NoCondCall ==
    [helper |-> "", field |-> "", operands |-> <<>>, condition |-> Condition_Value(NoValue)]

NoMembership ==
    [method |-> "", access |-> "", rhs |-> <<>>,
     built |-> [operator |-> "", fst_arg |-> Column(""), snd_arg |-> <<>>]]

NoComparison ==
    [method |-> "", access |-> "", rhs |-> "",
     built |-> [operator |-> "", fst_arg |-> Column(""), snd_arg |-> NoValue]]

NoForeign ==
    [called |-> FALSE, IS_OPTION |-> FALSE,
     RelatedField |-> [TABLE |-> "", NAME |-> "",
                       EFFECTIVE_ANNOTATION |-> Annotations(FALSE, None, FALSE)],
     field |-> Annotations(FALSE, None, FALSE),
     annos |-> Annotations(FALSE, None, FALSE)]

NoImrField == [called |-> FALSE, attrs |-> <<>>,
               field |-> Field("", "", <<>>, FALSE, None),
               out |-> [name |-> "", db_type |-> "", annotations |-> <<>>,
                        source_defined_at |-> None]]

NoExports == [definition |-> None, results |-> <<>>]

NoImr == [vec |-> <<>>, pushed |-> <<>>]

NoProxy == [made |-> FALSE,
            F |-> [INDEX |-> 0, EFFECTIVE_ANNOTATIONS |-> None, REQUIRED |-> <<>>],
            compiled |-> FALSE]

NoTupleSel == [called |-> FALSE, tuple |-> <<>>, row |-> <<>>, columns |-> <<>>,
               decoded |-> RowOk(<<>>)]

NoPatchSel == [called |-> FALSE, COLUMNS |-> <<>>, columns |-> <<>>]

NoSelect == [called |-> FALSE, self |-> <<>>, ctx |-> <<>>, decoder |-> <<>>]

NoQuery == [stage |-> "none", transaction |-> NoTransaction]

Init ==
    /\ overflow_checks \in BOOLEAN
    /\ selector \in Selectors
    /\ qb = QueryBuilder_new
    /\ range_arg = NoRange
    /\ lo_calls = <<>>
    /\ db_call = NoCall
    /\ table = <<>>
    /\ returned = <<>>
    /\ outcome = NoOutcome
    /\ stream_rest = <<>>
    /\ items = <<>>
    /\ decoder = NoDecoder
    /\ row = <<>>
    /\ by_name = NoResult
    /\ by_index = NoResult
    /\ max_str = NoMaxStr
    /\ db_enum = NoDbEnum
    /\ lint = NoLint
    /\ sql_delete = NoDelete
    /\ delete_args = NoDeleteArgs
    /\ statement = NoStatement
    /\ cond_call = NoCondCall
    /\ membership = NoMembership
    /\ comparison = NoComparison
    /\ foreign = NoForeign
    /\ imr_field = NoImrField
    /\ exports = NoExports
    /\ imr = NoImr
    /\ proxy = NoProxy
    /\ tuple_sel = NoTupleSel
    /\ patch_sel = NoPatchSel
    /\ selected = NoSelect
    /\ tx_queries = [q \in Queries |-> NoQuery]

executionVars == <<db_call, table, returned, outcome, stream_rest, items>>

\* QueryBuilder::condition, on a builder whose C is ().
QueryBuilder_condition ==
    /\ qb.stage = "building"
    /\ qb.condition = NoCondition
    /\ \E c \in Conditions : qb' = [qb EXCEPT !.condition = c]
    /\ UNCHANGED <<txVars, selectVars, exportVars, foreignVars, conditionVars, deleteVars, decodeVars, lintVars, overflow_checks, selector, range_arg, lo_calls, executionVars>>

\* QueryBuilder::transaction, on a builder whose T is ().
QueryBuilder_transaction ==
    /\ qb.stage = "building"
    /\ qb.transaction = NoTransaction
    /\ \E t \in Transactions : qb' = [qb EXCEPT !.transaction = t]
    /\ UNCHANGED <<txVars, selectVars, exportVars, foreignVars, conditionVars, deleteVars, decodeVars, lintVars, overflow_checks, selector, range_arg, lo_calls, executionVars>>

\* QueryBuilder::limit, on a builder whose LO is an OffsetMarker.
QueryBuilder_limit ==
    /\ qb.stage = "building"
    /\ IsOffsetMarker(qb.lim_off)
    /\ \E n \in U64 :
        /\ qb' = [qb EXCEPT !.lim_off = Limit(n, qb.lim_off)]
        /\ lo_calls' = Append(lo_calls, [method |-> "limit", n |-> n])
    /\ UNCHANGED <<txVars, selectVars, exportVars, foreignVars, conditionVars, deleteVars, decodeVars, lintVars, overflow_checks, selector, range_arg, executionVars>>

\* QueryBuilder::offset, on a builder whose LO is AcceptsOffset.
QueryBuilder_offset ==
    /\ qb.stage = "building"
    /\ AcceptsOffset(qb.lim_off)
    /\ \E n \in U64 :
        /\ qb' = [qb EXCEPT !.lim_off = add_offset(qb.lim_off, n)]
        /\ lo_calls' = Append(lo_calls, [method |-> "offset", n |-> n])
    /\ UNCHANGED <<txVars, selectVars, exportVars, foreignVars, conditionVars, deleteVars, decodeVars, lintVars, overflow_checks, selector, range_arg, executionVars>>

\* QueryBuilder::range, on a builder whose LO is (): Limit { limit:
\* range.len(), offset: range.start() }. An overflow in len() panics under
\* overflow checks and wraps without them.
QueryBuilder_range ==
    /\ qb.stage = "building"
    /\ qb.lim_off = Unit
    /\ \E r \in RangeArgs :
        LET len == FiniteRange_len(r) IN
        /\ range_arg' = [set |-> TRUE, incl |-> r.incl, start |-> r.start, end |-> r.end]
        /\ lo_calls' = Append(lo_calls, [method |-> "range", n |-> 0])
        /\ IF len.ovf /\ overflow_checks
           THEN qb' = [qb EXCEPT !.stage = "panicked"]
           ELSE qb' = [qb EXCEPT !.lim_off =
                          Limit(len.val, OffsetOnly(FiniteRange_start(r)))]
    /\ UNCHANGED <<txVars, selectVars, exportVars, foreignVars, conditionVars, deleteVars, decodeVars, lintVars, overflow_checks, selector, executionVars>>

\* QueryBuilder::all, on a builder whose LO is a LimitMarker.
QueryBuilder_all ==
    /\ qb.stage = "building"
    /\ IsLimitMarker(qb.lim_off)
    /\ \E t \in Tables(selector), fails \in BOOLEAN :
        LET clause == LimitMarker_into_option(qb.lim_off)
            got == query_all(t, clause, fails)
        IN  /\ db_call' = [method |-> "query_all", clause |-> clause]
            /\ table' = t
            /\ returned' = got.rows
            /\ outcome' = all_result(selector, got)
    /\ qb' = [qb EXCEPT !.stage = "executed"]
    /\ UNCHANGED <<txVars, selectVars, exportVars, foreignVars, conditionVars, deleteVars, decodeVars, lintVars, overflow_checks, selector, range_arg, lo_calls, stream_rest, items>>

\* QueryBuilder::one, on a builder whose LO is an OffsetMarker.
QueryBuilder_one ==
    /\ qb.stage = "building"
    /\ IsOffsetMarker(qb.lim_off)
    /\ \E t \in Tables(selector), fails \in BOOLEAN :
        LET clause == OffsetMarker_into_option(qb.lim_off)
            got == query_one(t, clause, fails)
        IN  /\ db_call' = [method |-> "query_one", clause |-> clause]
            /\ table' = t
            /\ returned' = got.rows
            /\ outcome' = one_result(selector, got)
    /\ qb' = [qb EXCEPT !.stage = "executed"]
    /\ UNCHANGED <<txVars, selectVars, exportVars, foreignVars, conditionVars, deleteVars, decodeVars, lintVars, overflow_checks, selector, range_arg, lo_calls, stream_rest, items>>

\* QueryBuilder::optional, on a builder whose LO is an OffsetMarker.
QueryBuilder_optional ==
    /\ qb.stage = "building"
    /\ IsOffsetMarker(qb.lim_off)
    /\ \E t \in Tables(selector), fails \in BOOLEAN :
        LET clause == OffsetMarker_into_option(qb.lim_off)
            got == query_optional(t, clause, fails)
        IN  /\ db_call' = [method |-> "query_optional", clause |-> clause]
            /\ table' = t
            /\ returned' = got.rows
            /\ outcome' = optional_result(selector, got)
    /\ qb' = [qb EXCEPT !.stage = "executed"]
    /\ UNCHANGED <<txVars, selectVars, exportVars, foreignVars, conditionVars, deleteVars, decodeVars, lintVars, overflow_checks, selector, range_arg, lo_calls, stream_rest, items>>

\* QueryBuilder::stream, on a builder whose LO is a LimitMarker: the query
\* is handed to query_stream and nothing is decoded yet.
QueryBuilder_stream ==
    /\ qb.stage = "building"
    /\ IsLimitMarker(qb.lim_off)
    /\ \E t \in Tables(selector) :
        LET clause == LimitMarker_into_option(qb.lim_off) IN
        /\ db_call' = [method |-> "query_stream", clause |-> clause]
        /\ table' = t
        /\ stream_rest' = ApplyClause(t, clause)
    /\ qb' = [qb EXCEPT !.stage = "streaming"]
    /\ outcome' = Returned("stream", TRUE, TRUE, <<>>, NoErr)
    /\ returned' = <<>>
    /\ items' = <<>>
    /\ UNCHANGED <<txVars, selectVars, exportVars, foreignVars, conditionVars, deleteVars, decodeVars, lintVars, overflow_checks, selector, range_arg, lo_calls>>

\* One poll of the stream that delivers a row: the closure of stream()
\* decodes it and the item is yielded.
Stream_next ==
    /\ qb.stage = "streaming"
    /\ stream_rest # <<>>
    /\ returned' = Append(returned, Head(stream_rest))
    /\ items' = Append(items, decode_row(selector, Head(stream_rest)))
    /\ stream_rest' = Tail(stream_rest)
    /\ UNCHANGED <<txVars, selectVars, exportVars, foreignVars, conditionVars, deleteVars, decodeVars, lintVars, overflow_checks, selector, qb, range_arg, lo_calls, db_call, table, outcome>>

\* One poll of the stream in which the execution layer fails: `row?` in the
\* closure yields the driver's error, and the stream is over.
Stream_error ==
    /\ qb.stage = "streaming"
    /\ items' = Append(items, RowErr(Error_Driver))
    /\ stream_rest' = <<>>
    /\ qb' = [qb EXCEPT !.stage = "executed"]
    /\ UNCHANGED <<txVars, selectVars, exportVars, foreignVars, conditionVars, deleteVars, decodeVars, lintVars, overflow_checks, selector, range_arg, lo_calls, db_call, table, returned, outcome>>

\* The poll after the last row: the stream ends.
Stream_end ==
    /\ qb.stage = "streaming"
    /\ stream_rest = <<>>
    /\ qb' = [qb EXCEPT !.stage = "executed"]
    /\ UNCHANGED <<txVars, selectVars, exportVars, foreignVars, conditionVars, deleteVars, decodeVars, lintVars, overflow_checks, selector, range_arg, lo_calls, executionVars>>

\* The stream is dropped before its end.
Stream_drop ==
    /\ qb.stage = "streaming"
    /\ qb' = [qb EXCEPT !.stage = "dropped"]
    /\ UNCHANGED <<txVars, selectVars, exportVars, foreignVars, conditionVars, deleteVars, decodeVars, lintVars, overflow_checks, selector, range_arg, lo_calls, executionVars>>

NextQuery ==
    \/ QueryBuilder_condition
    \/ QueryBuilder_transaction
    \/ QueryBuilder_limit
    \/ QueryBuilder_offset
    \/ QueryBuilder_range
    \/ QueryBuilder_all
    \/ QueryBuilder_one
    \/ QueryBuilder_optional
    \/ QueryBuilder_stream
    \/ Stream_next
    \/ Stream_error
    \/ Stream_end
    \/ Stream_drop

SpecQuery == Init /\ [][NextQuery]_vars

\* ------------------------------------------------------- decoding one row

\* Nothing has been decoded, constructed or converted yet.
Idle == decoder = NoDecoder /\ max_str = NoMaxStr /\ ~db_enum.called

\* Decoder d is applied to row r through both of its methods.
Decode(d, r, named, indexed) ==
    /\ decoder' = d
    /\ row' = r
    /\ by_name' = named
    /\ by_index' = indexed
    /\ UNCHANGED <<txVars, selectVars, exportVars, foreignVars, conditionVars, deleteVars, queryVars, lintVars, max_str, db_enum>>

DirectDecoder_decode ==
    /\ Idle
    /\ \E d \in DirectDecoders, r \in DecodeRows :
           Decode(d, r, DirectDecoder_by_name(d, r), DirectDecoder_by_index(d, r))

StarsAmountDecoder_decode ==
    /\ Idle
    /\ \E d \in StarsAmountDecoders, r \in DecodeRows :
           Decode(d, r, StarsAmountDecoder_by_name(d, r), StarsAmountDecoder_by_index(d, r))

MaxStrDecoder_decode ==
    /\ Idle
    /\ \E d \in MaxStrDecoders, r \in DecodeRows :
           Decode(d, r, MaxStrDecoder_by_name(d, r), MaxStrDecoder_by_index(d, r))

OptionMaxStrDecoder_decode ==
    /\ Idle
    /\ \E d \in OptionMaxStrDecoders, r \in DecodeRows :
           Decode(d, r, OptionMaxStrDecoder_by_name(d, r), OptionMaxStrDecoder_by_index(d, r))

ForeignModelByFieldDecoder_decode ==
    /\ Idle
    /\ \E d \in ForeignModelByFieldDecoders, r \in DecodeRows :
           Decode(d, r, ForeignModelByFieldDecoder_by_name(d, r),
                        ForeignModelByFieldDecoder_by_index(d, r))

OptionForeignModelByFieldDecoder_decode ==
    /\ Idle
    /\ \E d \in OptionForeignModelByFieldDecoders, r \in DecodeRows :
           Decode(d, r, OptionForeignModelByFieldDecoder_by_name(d, r),
                        OptionForeignModelByFieldDecoder_by_index(d, r))

TupleDecoder_decode ==
    /\ Idle
    /\ \E d \in TupleDecoders, r \in DecodeRows :
           Decode(d, r, TupleDecoder_by_name(d, r), TupleDecoder_by_index(d, r))

\* A constructor of MaxStr<MAX_LEN, Impl> is called.
Construct(op, max_len, len_impl, de_ok, input, result) ==
    /\ max_str' = [op |-> op, max_len |-> max_len, len_impl |-> len_impl,
                   de_ok |-> de_ok, input |-> input, result |-> result]
    /\ UNCHANGED <<txVars, selectVars, exportVars, foreignVars, conditionVars, deleteVars, queryVars, lintVars, decoder, row, by_name, by_index, db_enum>>

Call_MaxStr_new ==
    /\ Idle
    /\ \E m \in 0 .. MaxStrLen, l \in LenImpls, string \in Strings :
           Construct("new", m, l, TRUE, string, MaxStr_new(m, l, string))

Call_MaxStr_with_impl ==
    /\ Idle
    /\ \E m \in 0 .. MaxStrLen, l \in LenImpls, string \in Strings :
           Construct("with_impl", m, l, TRUE, string, MaxStr_with_impl(m, string, l))

\* The deserializer yields a string or fails.
Call_MaxStr_deserialize ==
    /\ Idle
    /\ \E m \in 0 .. MaxStrLen, l \in LenImpls, string \in Strings, de_ok \in BOOLEAN :
           LET de == [ok |-> de_ok, s |-> IF de_ok THEN string ELSE <<>>] IN
           Construct("deserialize", m, l, de.ok, de.s, MaxStr_deserialize(m, l, de))

\* A string read from an enum column is converted to the field's DbEnum.
Call_convert_primitive ==
    /\ Idle
    /\ \E primitive \in StoredTags :
        db_enum' = [called |-> TRUE, primitive |-> primitive,
                    result |-> convert_primitive(primitive)]
    /\ UNCHANGED <<txVars, selectVars, exportVars, foreignVars, conditionVars, deleteVars, queryVars, lintVars, decoder, row, by_name, by_index, max_str>>

NextDecode ==
    \/ DirectDecoder_decode
    \/ StarsAmountDecoder_decode
    \/ MaxStrDecoder_decode
    \/ OptionMaxStrDecoder_decode
    \/ ForeignModelByFieldDecoder_decode
    \/ OptionForeignModelByFieldDecoder_decode
    \/ TupleDecoder_decode
    \/ Call_MaxStr_new
    \/ Call_MaxStr_with_impl
    \/ Call_MaxStr_deserialize
    \/ Call_convert_primitive

SpecDecode == Init /\ [][NextDecode]_vars

\* --------------------------------------------------------- linting one field

\* The derive macro calls check_annotations on a field, once.
Call_check_annotations ==
    /\ ~lint.checked
    /\ \E footprint \in Footprints : lint' = check_annotations(footprint)
    /\ UNCHANGED <<txVars, selectVars, exportVars, foreignVars, conditionVars, deleteVars, queryVars, decodeVars>>

NextLint == Call_check_annotations

SpecLint == Init /\ [][NextLint]_vars

\* ------------------------------------------------------- building a DELETE

\* The constructor of SQLDelete: the caller names the dialect and the table
\* and says which condition the statement has, or that it has none.
DBImpl_delete ==
    /\ sql_delete.stage = "none"
    /\ \E dialect \in DBImpl, model \in Models,
          condition \in {None} \cup {Some(c) : c \in DeleteConditions} :
            /\ sql_delete' = [stage |-> "building",
                              self |-> SQLDelete_new(dialect, model, condition)]
            /\ delete_args' = [given |-> condition, supplied |-> None]
    /\ UNCHANGED <<txVars, selectVars, exportVars, foreignVars, conditionVars, queryVars, decodeVars, lintVars, statement>>

\* A call of SQLDelete::limit.
Call_SQLDelete_limit ==
    /\ sql_delete.stage = "building"
    /\ \E limit \in U64 :
            sql_delete' = [sql_delete EXCEPT !.self = SQLDelete_limit(@, limit)]
    /\ UNCHANGED <<txVars, selectVars, exportVars, foreignVars, conditionVars, queryVars, decodeVars, lintVars, delete_args, statement>>

\* A call of SQLDelete::where_clause.
Call_SQLDelete_where_clause ==
    /\ sql_delete.stage = "building"
    /\ \E condition \in DeleteConditions :
            /\ sql_delete' =
                    [sql_delete EXCEPT !.self = SQLDelete_where_clause(@, condition)]
            /\ delete_args' = [delete_args EXCEPT !.supplied = Some(condition)]
    /\ UNCHANGED <<txVars, selectVars, exportVars, foreignVars, conditionVars, queryVars, decodeVars, lintVars, statement>>

\* A call of SQLDelete::build, which consumes the builder.
Call_SQLDelete_build ==
    /\ sql_delete.stage = "building"
    /\ sql_delete' = [sql_delete EXCEPT !.stage = "built"]
    /\ statement' = SQLDelete_build(sql_delete.self)
    /\ UNCHANGED <<txVars, selectVars, exportVars, foreignVars, conditionVars, queryVars, decodeVars, lintVars, delete_args>>

NextDelete ==
    \/ DBImpl_delete
    \/ Call_SQLDelete_limit
    \/ Call_SQLDelete_where_clause
    \/ Call_SQLDelete_build

SpecDelete == Init /\ [][NextDelete]_vars

\* ------------------------------------------------------ building a condition

\* No condition has been built yet.
NoConditionBuilt ==
    cond_call = NoCondCall /\ membership = NoMembership /\ comparison = NoComparison

\* A call of one of equals, not_equals, greater, greater_or_equals, less,
\* less_or_equals, like, not_like, regexp, not_regexp on the proxy of F.
Call_FieldProxy_binary_helper ==
    /\ NoConditionBuilt
    /\ \E F \in Fields, variant \in BinaryVariants :
          \E value \in Operands(Field_DbType(F)) :
            cond_call' = [helper |-> variant, field |-> F, operands |-> <<value>>,
                          condition |-> FieldProxy_binary_helper(F, variant, value)]
    /\ UNCHANGED <<txVars, selectVars, exportVars, foreignVars, queryVars, decodeVars, lintVars, deleteVars, membership, comparison>>

\* A call of between or not_between on the proxy of F.
Call_FieldProxy_ternary_helper ==
    /\ NoConditionBuilt
    /\ \E F \in Fields, variant \in TernaryVariants :
          \E lower \in Operands(Field_DbType(F)), upper \in Operands(Field_DbType(F)) :
            cond_call' = [helper |-> variant, field |-> F, operands |-> <<lower, upper>>,
                          condition |-> FieldProxy_ternary_helper(F, variant, lower, upper)]
    /\ UNCHANGED <<txVars, selectVars, exportVars, foreignVars, queryVars, decodeVars, lintVars, deleteVars, membership, comparison>>

\* A call of FieldAccess::in on a field of strings.
Call_FieldAccess_in ==
    /\ NoConditionBuilt
    /\ \E access \in {F \in Fields : Field_DbType(F) = "VarChar"}, rhs \in RhsLists :
            membership' = [method |-> "in", access |-> access, rhs |-> rhs,
                           built |-> FieldAccess_in(access, rhs)]
    /\ UNCHANGED <<txVars, selectVars, exportVars, foreignVars, queryVars, decodeVars, lintVars, deleteVars, cond_call, comparison>>

\* A call of FieldAccess::not_in on a field of strings.
Call_FieldAccess_not_in ==
    /\ NoConditionBuilt
    /\ \E access \in {F \in Fields : Field_DbType(F) = "VarChar"}, rhs \in RhsLists :
            membership' = [method |-> "not_in", access |-> access, rhs |-> rhs,
                           built |-> FieldAccess_not_in(access, rhs)]
    /\ UNCHANGED <<txVars, selectVars, exportVars, foreignVars, queryVars, decodeVars, lintVars, deleteVars, cond_call, comparison>>

\* A call of FieldAccess::equals on a field of strings.
Call_FieldAccess_equals ==
    /\ NoConditionBuilt
    /\ \E access \in {F \in Fields : Field_DbType(F) = "VarChar"}, rhs \in CallerStrings :
            comparison' = [method |-> "equals", access |-> access, rhs |-> rhs,
                           built |-> FieldAccess_equals(access, rhs)]
    /\ UNCHANGED <<txVars, selectVars, exportVars, foreignVars, queryVars, decodeVars, lintVars, deleteVars, cond_call, membership>>

\* A call of FieldAccess::not_equals on a field of strings.
Call_FieldAccess_not_equals ==
    /\ NoConditionBuilt
    /\ \E access \in {F \in Fields : Field_DbType(F) = "VarChar"}, rhs \in CallerStrings :
            comparison' = [method |-> "not_equals", access |-> access, rhs |-> rhs,
                           built |-> FieldAccess_not_equals(access, rhs)]
    /\ UNCHANGED <<txVars, selectVars, exportVars, foreignVars, queryVars, decodeVars, lintVars, deleteVars, cond_call, membership>>

NextCondition ==
    \/ Call_FieldProxy_binary_helper
    \/ Call_FieldProxy_ternary_helper
    \/ Call_FieldAccess_in
    \/ Call_FieldAccess_not_in
    \/ Call_FieldAccess_equals
    \/ Call_FieldAccess_not_equals

SpecCondition == Init /\ [][NextCondition]_vars

\* ------------------------------------------ annotating a foreign-key field

\* The annotations of a field of type ForeignModelByField<FF> (IS_OPTION is
\* false) or Option<ForeignModelByField<FF>> (IS_OPTION is true) are
\* computed, once.
Call_foreign_annotations ==
    /\ ~foreign.called
    /\ \E IS_OPTION \in BOOLEAN, RelatedField \in RelatedFields,
          field \in ExplicitAnnotations :
            foreign' = [called |-> TRUE, IS_OPTION |-> IS_OPTION,
                        RelatedField |-> RelatedField, field |-> field,
                        annos |-> foreign_annotations(IS_OPTION, RelatedField, field)]
    /\ UNCHANGED <<txVars, selectVars, exportVars, queryVars, decodeVars, lintVars, deleteVars, conditionVars>>

NextForeign == Call_foreign_annotations

SpecForeign == Init /\ [][NextForeign]_vars

\* -------------------------------------------------------- exporting the IMR

\* A field is written with attributes and converted: the derive makes the
\* annotations of the attributes, From<Field> makes the imr::Field.
Call_Field_into_imr ==
    /\ ~imr_field.called
    /\ exports.results = <<>>
    /\ imr.pushed = <<>>
    /\ \E name \in {"id", "name"}, db_type \in {"Int64", "VarChar"},
          attrs \in AttributeLists, nullable \in BOOLEAN,
          source \in {None, Some("user.rs:3")} :
            LET field == Field(name, db_type, Model_annotations(attrs), nullable, source)
            IN  imr_field' = [called |-> TRUE, attrs |-> attrs, field |-> field,
                              out |-> Field_into_imr(field)]
    /\ UNCHANGED <<txVars, selectVars, exports, imr, proxy>>
    /\ UNCHANGED <<queryVars, decodeVars, lintVars, deleteVars, conditionVars, foreignVars>>

\* GetModelDefinition::as_imr: self.as_rorm().into(), on the same model each
\* time.
GetModelDefinition_as_imr ==
    /\ ~imr_field.called
    /\ imr.pushed = <<>>
    /\ Len(exports.results) < MaxExports
    /\ \E model \in ModelDefinitions :
        /\ exports.definition.some => model = unwrap(exports.definition)
        /\ exports' = [definition |-> Some(model),
                       results |-> Append(exports.results, ModelDefinition_into_imr(model))]
    /\ UNCHANGED <<txVars, selectVars, imr_field, imr, proxy>>
    /\ UNCHANGED <<queryVars, decodeVars, lintVars, deleteVars, conditionVars, foreignVars>>

\* push_imr of one more field on the vector of the model's fields.
Call_push_imr ==
    /\ ~imr_field.called
    /\ exports.results = <<>>
    /\ Len(imr.pushed) < MaxFields
    /\ \E F \in RawFields :
        imr' = [vec |-> push_imr(F, imr.vec), pushed |-> Append(imr.pushed, F)]
    /\ UNCHANGED <<txVars, selectVars, imr_field, exports, proxy>>
    /\ UNCHANGED <<queryVars, decodeVars, lintVars, deleteVars, conditionVars, foreignVars>>

NextExport ==
    \/ Call_Field_into_imr
    \/ GetModelDefinition_as_imr
    \/ Call_push_imr

SpecExport == Init /\ [][NextExport]_vars

\* ------------------------------------------------------ making a FieldProxy

\* A program that calls FieldProxy::<F, P>::new() is compiled.
Call_FieldProxy_new ==
    /\ ~proxy.made
    /\ \E F \in CheckedFields : proxy' = FieldProxy_new(F)
    /\ UNCHANGED <<txVars, selectVars, imr_field, exports, imr>>
    /\ UNCHANGED <<queryVars, decodeVars, lintVars, deleteVars, conditionVars, foreignVars>>

NextProxy == Call_FieldProxy_new

SpecProxy == Init /\ [][NextProxy]_vars

\* ----------------------------------------------------- selecting, one call

NothingSelected == ~tuple_sel.called /\ ~patch_sel.called /\ ~selected.called

\* A SelectTuple is made of a tuple of field proxies and decodes a row.
Call_SelectTuple ==
    /\ NothingSelected
    /\ \E tuple \in ProxyTuples, r \in SelectedRows :
        tuple_sel' = [called |-> TRUE, tuple |-> tuple, row |-> r,
                      columns |-> SelectTuple_new(tuple),
                      decoded |-> SelectTuple_decode(tuple, r)]
    /\ UNCHANGED <<txVars, patch_sel, selected>>
    /\ UNCHANGED <<queryVars, decodeVars, lintVars, deleteVars, conditionVars,
                   foreignVars, exportVars>>

\* A SelectPatch is made for a patch of the model user.
Call_SelectPatch_new ==
    /\ NothingSelected
    /\ \E COLUMNS \in PatchColumns :
        patch_sel' = [called |-> TRUE, COLUMNS |-> COLUMNS,
                      columns |-> SelectPatch_new("user", COLUMNS)]
    /\ UNCHANGED <<txVars, tuple_sel, selected>>
    /\ UNCHANGED <<queryVars, decodeVars, lintVars, deleteVars, conditionVars,
                   foreignVars, exportVars>>

\* select(ctx) of a tuple of selectors on a new context.
Call_Tuple_select ==
    /\ NothingSelected
    /\ \E self \in SelectorTuples :
        LET made == Tuple_select(self, <<>>) IN
        selected' = [called |-> TRUE, self |-> self, ctx |-> made.ctx,
                     decoder |-> made.decoder]
    /\ UNCHANGED <<txVars, tuple_sel, patch_sel>>
    /\ UNCHANGED <<queryVars, decodeVars, lintVars, deleteVars, conditionVars,
                   foreignVars, exportVars>>

NextSelect ==
    \/ Call_SelectTuple
    \/ Call_SelectPatch_new
    \/ Call_Tuple_select

SpecSelect == Init /\ [][NextSelect]_vars

\* ------------------------------------------- queries sharing a transaction

\* QueryBuilder::new: transaction = ().
Query_new(q) ==
    /\ tx_queries[q].stage = "none"
    /\ tx_queries' = [tx_queries EXCEPT ![q] =
                        [stage |-> "building", transaction |-> NoTransaction]]
    /\ UNCHANGED <<queryVars, decodeVars, lintVars, deleteVars, conditionVars,
                   foreignVars, exportVars, selectVars>>

\* QueryBuilder::transaction, on a builder without one, with a &mut the
\* borrow checker accepts.
Query_transaction(q) ==
    /\ tx_queries[q].stage = "building"
    /\ tx_queries[q].transaction = NoTransaction
    /\ \E tx \in Transactions :
        /\ MutBorrow(tx_queries, tx)
        /\ tx_queries' = [tx_queries EXCEPT ![q].transaction = tx]
    /\ UNCHANGED <<queryVars, decodeVars, lintVars, deleteVars, conditionVars,
                   foreignVars, exportVars, selectVars>>

\* all(), one() or optional() is called: the future owns the builder and
\* hands self.transaction.into_option() to the execution layer.
Query_terminal(q) ==
    /\ tx_queries[q].stage = "building"
    /\ tx_queries' = [tx_queries EXCEPT ![q].stage = "running"]
    /\ UNCHANGED <<queryVars, decodeVars, lintVars, deleteVars, conditionVars,
                   foreignVars, exportVars, selectVars>>

\* stream() is called: the stream, which lives no longer than 'rf, owns what
\* the builder owned.
Query_stream(q) ==
    /\ tx_queries[q].stage = "building"
    /\ tx_queries' = [tx_queries EXCEPT ![q].stage = "streaming"]
    /\ UNCHANGED <<queryVars, decodeVars, lintVars, deleteVars, conditionVars,
                   foreignVars, exportVars, selectVars>>

\* The future completes or the stream ends.
Query_completed(q) ==
    /\ tx_queries[q].stage \in {"running", "streaming"}
    /\ tx_queries' = [tx_queries EXCEPT ![q].stage = "done"]
    /\ UNCHANGED <<queryVars, decodeVars, lintVars, deleteVars, conditionVars,
                   foreignVars, exportVars, selectVars>>

\* The builder, the future or the stream is dropped.
Query_drop(q) ==
    /\ tx_queries[q].stage \in LiveStages
    /\ tx_queries' = [tx_queries EXCEPT ![q].stage = "dropped"]
    /\ UNCHANGED <<queryVars, decodeVars, lintVars, deleteVars, conditionVars,
                   foreignVars, exportVars, selectVars>>

NextTransaction ==
    \E q \in Queries :
        \/ Query_new(q)
        \/ Query_transaction(q)
        \/ Query_terminal(q)
        \/ Query_stream(q)
        \/ Query_completed(q)
        \/ Query_drop(q)

SpecTransaction == Init /\ [][NextTransaction]_vars

\* ------------------------------------------------------------------ claims

\* The rows the statement of the executed query selected.
Selected == ApplyClause(table, db_call.clause)

\* C1: range(start..end) with start <= end yields limit = end - start and
\* offset = start, and the inclusive range start..=e, which is start..=end-1
\* for end = e + 1, yields the same limit (e + 1) - start and offset start;
\* neither panics.
C1_RangeLimitOffset ==
    range_arg.set =>
        /\ (~range_arg.incl /\ range_arg.start <= range_arg.end) =>
              /\ qb.stage # "panicked"
              /\ qb.lim_off = Limit(range_arg.end - range_arg.start,
                                    OffsetOnly(range_arg.start))
        /\ (range_arg.incl /\ range_arg.start <= range_arg.end
                           /\ range_arg.end < MaxU64) =>
              /\ qb.stage # "panicked"
              /\ qb.lim_off = Limit((range_arg.end + 1) - range_arg.start,
                                    OffsetOnly(range_arg.start))

\* range(1..=3) was called and the builder holds limit 3, offset 1.
C1_Witness ==
    /\ range_arg = [set |-> TRUE, incl |-> TRUE, start |-> 1, end |-> 3]
    /\ qb.lim_off = Limit(3, OffsetOnly(1))

C3_AllOrderedOrNothing ==
    (outcome.op = "all" /\ outcome.err.kind # "Driver") =>
        IF \A i \in 1 .. Len(returned) : SelectTuple_decode(selector, returned[i]).ok
        THEN /\ outcome.ok
             /\ Len(outcome.rows) = Len(returned)
             /\ \A i \in 1 .. Len(returned) :
                    outcome.rows[i] = SelectTuple_decode(selector, returned[i]).vals
        ELSE /\ ~outcome.ok
             /\ outcome.rows = <<>>

\* all() got two rows of which the first decodes and the second does not,
\* and returned an error without rows.
C3_Witness ==
    /\ outcome.op = "all"
    /\ Len(returned) = 2
    /\ SelectTuple_decode(selector, returned[1]).ok
    /\ ~SelectTuple_decode(selector, returned[2]).ok
    /\ ~outcome.ok
    /\ outcome.rows = <<>>

\* The error of the first returned row that does not decode.
RECURSIVE FirstDecodeError(_, _)
FirstDecodeError(sel, rows) ==
    IF rows = <<>> THEN NoErr
    ELSE LET r == SelectTuple_decode(sel, Head(rows)) IN
         IF ~r.ok THEN r.err ELSE FirstDecodeError(sel, Tail(rows))

\* C8: when a returned row cannot be decoded, the error all(), one() and
\* optional() return, and the item stream() yields, names the failing
\* column (its position, the selection decoding by index) and carries the
\* cause of the failure.
C8_ErrorNamesColumn ==
    /\ (outcome.op \in {"all", "one", "optional"}
            /\ FirstDecodeError(selector, returned) # NoErr) =>
          /\ outcome.err.index = FirstDecodeError(selector, returned).index
          /\ outcome.err.source = FirstDecodeError(selector, returned).source
    /\ \A i \in 1 .. Len(items) :
          (outcome.op = "stream" /\ i <= Len(returned)
                /\ ~SelectTuple_decode(selector, returned[i]).ok) =>
             /\ items[i].err.index = SelectTuple_decode(selector, returned[i]).err.index
             /\ items[i].err.source = SelectTuple_decode(selector, returned[i]).err.source

\* The decoder's alias and its index designate the same cell of the row.
SameCell(d, r) == d.index < Len(r) /\ r[d.index + 1].name = d.column

\* The same, of every decoder a composite decoder is made of.
Designated(d, r) ==
    CASE d.kind = "Tuple" -> \A i \in 1 .. Len(d.parts) : SameCell(d.parts[i], r)
      [] d.kind \in {"ForeignModelByField", "OptionForeignModelByField"} ->
            SameCell(d.inner, r)
      [] OTHER -> SameCell(d, r)

\* C4: for every decoder (direct, converting, MaxStr and Option<MaxStr>,
\* foreign model, tuple) and every row in which its alias and its index
\* designate the same cell, by_name and by_index both fail or both return
\* the same value.
C4_ByNameByIndexAgree ==
    (decoder # NoDecoder /\ Designated(decoder, row)) =>
        /\ by_name.ok = by_index.ok
        /\ by_name.ok => by_name.val = by_index.val

\* A MaxStr decoder read the two-byte string of the second cell of a row,
\* through its alias and through its index, and both returned it.
C4_Witness ==
    /\ decoder.kind = "MaxStr"
    /\ decoder.index = 1
    /\ SameCell(decoder, row)
    /\ row[2].val = Str(<<"u2">>)
    /\ by_name.ok /\ by_index.ok
    /\ by_name.val = by_index.val
    /\ by_name.val.s = <<"u2">>

\* What the tuple decoder owes for the outcomes of its constituents: all of
\* them invoked and their values in order, or the constituents up to the
\* first failing one invoked, its error, and no value.
TupleContract(result, named) ==
    LET n == Len(decoder.parts)
        part(i) == TuplePart_decode(decoder.parts, row, i, named)
        failing == { i \in 0 .. n - 1 : ~part(i).ok }
    IN  IF failing = {}
        THEN /\ result.ok
             /\ result.calls = [i \in 1 .. n |-> i - 1]
             /\ result.val = [i \in 1 .. n |-> part(i - 1).val]
        ELSE LET first == CHOOSE k \in failing : \A j \in failing : k <= j IN
             /\ ~result.ok
             /\ result.err = part(first).err
             /\ result.calls = [i \in 1 .. first + 1 |-> i - 1]
             /\ result.val = <<>>

\* C5: a tuple decoder invokes its constituents in ascending position; at
\* the first that fails it returns that constituent's error, invokes none of
\* the later ones and returns no values.
C5_TupleFirstFailure ==
    decoder.kind = "Tuple" =>
        /\ TupleContract(by_name, TRUE)
        /\ TupleContract(by_index, FALSE)

\* A tuple of three decoders whose first constituent decodes, whose second
\* and third would fail with different errors: the second's error is
\* returned and the third was never invoked.
C5_Witness ==
    /\ decoder.kind = "Tuple"
    /\ Len(decoder.parts) = 3
    /\ FieldDecoder_by_name(decoder.parts[1], row).ok
    /\ ~FieldDecoder_by_name(decoder.parts[2], row).ok
    /\ ~FieldDecoder_by_name(decoder.parts[3], row).ok
    /\ FieldDecoder_by_name(decoder.parts[2], row).err
           # FieldDecoder_by_name(decoder.parts[3], row).err
    /\ ~by_name.ok
    /\ by_name.err = FieldDecoder_by_name(decoder.parts[2], row).err
    /\ by_name.calls = <<0, 1>>

\* What a MaxStr decoder owes for a string it read from the row.
MaxStrContract(result, string) ==
    IF LenImpl_len(decoder.len_impl, string) > decoder.max_len
    THEN ~result.ok /\ result.err.kind = "DecodeError"
    ELSE result.ok /\ result.val.t = "MaxStr" /\ result.val.s = string

\* The cell the decoder reads through its alias.
NamedCell == row[PositionOf(row, decoder.column, 0) + 1].val

\* C6: new, with_impl and deserialize return an error for every string
\* longer (by the LenImpl) than MAX_LEN and the unchanged string for every
\* other one, the one of length MAX_LEN included; so do by_name and by_index
\* of the decoders of MaxStr and of Option<MaxStr>; hence no MaxStr is longer
\* than its MAX_LEN.
C6_MaxStrNeverExceeds ==
    /\ (max_str # NoMaxStr /\ max_str.de_ok) =>
          IF LenImpl_len(max_str.len_impl, max_str.input) > max_str.max_len
          THEN ~max_str.result.ok
          ELSE /\ max_str.result.ok
               /\ max_str.result.val.s = max_str.input
               /\ LenImpl_len(max_str.len_impl, max_str.result.val.s) <= max_str.max_len
    /\ decoder.kind \in {"MaxStr", "OptionMaxStr"} =>
          /\ (PositionOf(row, decoder.column, 0) < Len(row) /\ NamedCell.t = "String") =>
                MaxStrContract(by_name, NamedCell.s)
          /\ (decoder.index < Len(row) /\ row[decoder.index + 1].val.t = "String") =>
                MaxStrContract(by_index, row[decoder.index + 1].val.s)
          /\ \A result \in {by_name, by_index} :
                (result.ok /\ result.val # Null) =>
                    LenImpl_len(decoder.len_impl, result.val.s) <= decoder.max_len

\* The decoder of a MaxStr<1> that counts bytes read a string of one code
\* point and two bytes, and returned an error.
C6_Witness ==
    /\ decoder.kind = "MaxStr"
    /\ decoder.max_len = 1
    /\ decoder.len_impl = "NumBytes"
    /\ decoder.index < Len(row)
    /\ row[decoder.index + 1].val = Str(<<"u2">>)
    /\ ~by_index.ok
    /\ by_index.err.kind = "DecodeError"

\* C7: converting the string of an enum column that is none of the enum's
\* variants yields a decode error that is returned to the caller: no
\* variant, and no panic.
C7_UnknownTagIsDecodeError ==
    (db_enum.called /\ db_enum.primitive \notin DbEnum_CHOICES) =>
        db_enum.result.outcome = "error"

\* The checked footprint has the annotation (or, for NN, the type is not
\* nullable).
Has(a) == lint.footprint[a + 1] = 1

\* The rules of the annotations as they are listed: the auto times exclude
\* auto_increment, choices, default, max_length, primary_key and unique; a
\* primary key is not nullable; auto_increment needs a primary or unique
\* key; choices need a default; max_length excludes choices.
ViolatesListedRule ==
    \/ (Has(CT) \/ Has(UT))
          /\ (Has(AI) \/ Has(CH) \/ Has(DE) \/ Has(ML) \/ Has(PK) \/ Has(UN))
    \/ Has(PK) /\ ~Has(NN)
    \/ Has(AI) /\ ~Has(PK) /\ ~Has(UN)
    \/ Has(CH) /\ ~Has(DE)
    \/ Has(ML) /\ Has(CH)

\* C9: check_annotations rejects, with a message, every footprint that
\* violates one of the listed rules.
C9_RejectsListedViolations ==
    (lint.checked /\ ViolatesListedRule) => (lint.panicked /\ lint.err # "")

\* A field with choices and no default, and nothing else, was rejected.
C9_Witness ==
    /\ lint.checked
    /\ lint.footprint = <<0, 0, 0, 1, 0, 0, 0, 0, 0, 1>>
    /\ lint.panicked
    /\ lint.err = "Choices requires a Default"

\* C10, as stated: check_annotations accepts every footprint that violates
\* none of the listed rules.
C10_AcceptsUnlisted ==
    (lint.checked /\ ~ViolatesListedRule) => ~lint.panicked

\* The combinations check_annotations rejects besides the listed ones:
\* auto_increment with choices, default or max_length; choices or default
\* with primary_key or unique; index with primary_key; auto_update_time
\* alone on a type that is not nullable; auto_increment without primary_key.
ViolatesFurtherRule ==
    \/ Has(AI) /\ (Has(CH) \/ Has(DE) \/ Has(ML))
    \/ (Has(CH) \/ Has(DE)) /\ (Has(PK) \/ Has(UN))
    \/ Has(IN_) /\ Has(PK)
    \/ Has(UT) /\ ~Has(CT) /\ ~Has(DE) /\ Has(NN)
    \/ Has(AI) /\ ~Has(PK)

\* C10, amended: check_annotations accepts every footprint that violates
\* neither a listed rule nor one of the further combinations.
C10_AcceptsUnlistedAmended ==
    (lint.checked /\ ~ViolatesListedRule /\ ~ViolatesFurtherRule) => ~lint.panicked

\* A not nullable, unique, indexed field with a max_length was accepted.
C10_Witness ==
    /\ lint.checked
    /\ lint.footprint = <<0, 0, 0, 0, 0, 1, 1, 0, 1, 1>>
    /\ ~lint.panicked

\* C11: a field with auto_increment and unique, without primary_key and
\* with no other rule violated, passes check_annotations.
C11_AutoIncrementOnUniqueAccepted ==
    (lint.checked /\ Has(AI) /\ Has(UN) /\ ~Has(PK)
        /\ ~Has(CT) /\ ~Has(UT) /\ ~Has(CH) /\ ~Has(DE) /\ ~Has(ML)) =>
        ~lint.panicked

\* C12: no step of the builder overwrites a component that is set: a
\* condition, a transaction, a limit or an offset that the builder holds is
\* held unchanged after every step, and range() is called only on a builder
\* with neither limit nor offset.
C12_ComponentsSetOnce ==
    [][ /\ qb.condition # NoCondition => qb'.condition = qb.condition
        /\ qb.transaction # NoTransaction => qb'.transaction = qb.transaction
        /\ qb.lim_off.has_limit =>
              qb'.lim_off.has_limit /\ qb'.lim_off.limit = qb.lim_off.limit
        /\ qb.lim_off.has_offset =>
              qb'.lim_off.has_offset /\ qb'.lim_off.offset = qb.lim_off.offset
        /\ range_arg' # range_arg => qb.lim_off = Unit ]_vars

\* A builder on which condition, transaction, offset and limit were each
\* called once.
C12_Witness ==
    /\ qb.stage = "building"
    /\ qb.condition = "c2"
    /\ qb.transaction = "t1"
    /\ qb.lim_off = Limit(2, OffsetOnly(1))
    /\ ~range_arg.set

\* A builder on which offset() was called and limit() was not.
OffsetWithoutLimit == qb.lim_off.has_offset /\ ~qb.lim_off.has_limit

\* C13, as stated: a query with an offset and no limit can be executed by
\* every terminal method, all() and stream() included, and the execution
\* layer then receives the offset with no limit.
C13_OffsetWithoutLimitExecutable ==
    /\ (qb.stage = "building" /\ OffsetWithoutLimit) =>
          /\ ENABLED QueryBuilder_all
          /\ ENABLED QueryBuilder_stream
          /\ ENABLED QueryBuilder_one
          /\ ENABLED QueryBuilder_optional
    /\ (db_call # NoCall /\ OffsetWithoutLimit) =>
          db_call.clause = [some |-> FALSE, limit |-> 0, has_offset |-> TRUE,
                            offset |-> qb.lim_off.offset]

\* C13, amended: offset() is accepted on a builder without a limit; the
\* query can then be executed by one() and optional(), which hand the offset
\* with no limit to the execution layer, while all() and stream() are not
\* available on it until limit() is called.
C13_OffsetWithoutLimitAmended ==
    /\ (qb.stage = "building" /\ OffsetWithoutLimit) =>
          /\ ENABLED QueryBuilder_one
          /\ ENABLED QueryBuilder_optional
          /\ ENABLED QueryBuilder_limit
          /\ ~ENABLED QueryBuilder_all
          /\ ~ENABLED QueryBuilder_stream
    /\ (db_call # NoCall /\ OffsetWithoutLimit) =>
          /\ db_call.method \in {"query_one", "query_optional"}
          /\ db_call.clause = [some |-> FALSE, limit |-> 0, has_offset |-> TRUE,
                               offset |-> qb.lim_off.offset]

\* offset(1).one() ran against two rows: the execution layer received
\* offset 1 without a limit and the second row came back.
C13_Witness ==
    /\ qb.lim_off = OffsetOnly(1)
    /\ db_call = [method |-> "query_one",
                  clause |-> [some |-> FALSE, limit |-> 0, has_offset |-> TRUE, offset |-> 1]]
    /\ Len(table) = 2
    /\ returned = <<table[2]>>
    /\ outcome.op = "one"

\* The leaves the placeholders of a text stand for, from left to right.
PlaceholdersOf(sql) ==
    LET at == {i \in 1 .. Len(sql) : sql[i].kind = "placeholder"}
        RECURSIVE walk(_)
        walk(i) == IF i > Len(sql) THEN <<>>
                   ELSE (IF i \in at THEN <<sql[i].of>> ELSE <<>>) \o walk(i + 1)
    IN  walk(1)

HasText(sql, s) == \E i \in 1 .. Len(sql) : sql[i] = Text(s)

\* C14 (as stated): SQLDelete::build for a dialect other than SQLite returns
\* an UnsupportedOperation error to the caller and does not panic.
C14_UnimplementedDialectIsError ==
    (sql_delete.stage = "built" /\ sql_delete.self.dialect # "SQLite")
        => statement.outcome = "UnsupportedOperation"

\* C15: the parameters build() returns are the leaves the placeholders of the
\* returned text stand for, one per placeholder and in the order of the
\* placeholders; a statement without WHERE has no placeholder and no
\* parameter.
C15_ParamsMatchPlaceholders ==
    statement.outcome = "returned" =>
        /\ statement.params = PlaceholdersOf(statement.sql)
        /\ ~HasText(statement.sql, "WHERE ") =>
                (statement.params = <<>> /\ PlaceholdersOf(statement.sql) = <<>>)

\* A statement with two placeholders of different values and a limit.
C15_Witness ==
    /\ statement.outcome = "returned"
    /\ statement.params = <<Value_I16(1), Value_I16(0)>>
    /\ PlaceholdersOf(statement.sql) = <<Value_I16(1), Value_I16(0)>>
    /\ sql_delete.self.limit = Some(2)

LeavesOf(cond) == [i \in 1 .. Len(cond.args) |-> cond.args[i].value]

\* C17: in a condition built by a helper of FieldProxy the first leaf is the
\* Ident of the field the helper was called on, the leaf of an operand that
\* is a field proxy is the Ident of that field, and the leaf of a string, a
\* byte string or a number is never an Ident.
C17_OperandsNeverIdentifiers ==
    cond_call # NoCondCall =>
        LET leaves == LeavesOf(cond_call.condition) IN
        /\ Len(leaves) = Len(cond_call.operands) + 1
        /\ \A i \in 1 .. Len(cond_call.condition.args) :
                cond_call.condition.args[i].node = "Value"
        /\ leaves[1] = Value_Ident(cond_call.field)
        /\ \A i \in 1 .. Len(cond_call.operands) :
                IF cond_call.operands[i].kind = "FieldProxy"
                THEN leaves[i + 1] = Value_Ident(cond_call.operands[i].s)
                ELSE leaves[i + 1].tag # "Ident"

\* like() with a string that is the name of a column: the string stays a
\* String.
C17_Witness ==
    /\ cond_call.helper = "Like"
    /\ cond_call.field = "email"
    /\ cond_call.operands = <<StrOperand("name")>>
    /\ LeavesOf(cond_call.condition) = <<Value_Ident("email"), Value_String("name")>>

C19_OperandOrder ==
    /\ comparison # NoComparison =>
        LET rendered == Condition_build(Binary_as_condition(comparison.built), <<>>) IN
        /\ comparison.built.operator =
                (IF comparison.method = "equals" THEN "Equals" ELSE "NotEquals")
        /\ comparison.built.fst_arg = Column(comparison.access)
        /\ comparison.built.snd_arg = Value_String(comparison.rhs)
        /\ comparison.method = "equals" =>
                /\ rendered.sql = <<Text(comparison.access), Text("="),
                                    Placeholder(Value_String(comparison.rhs))>>
                /\ rendered.lookup = <<Value_String(comparison.rhs)>>
    /\ cond_call # NoCondCall =>
        LET cond == cond_call.condition
            value(i) == Condition_Value(IntoCondValue_into_value(cond_call.operands[i]))
            rendered == Condition_build(cond, <<>>)
        IN
        /\ cond.op = cond_call.helper
        /\ cond_call.helper \in BinaryVariants =>
                /\ cond.node = "BinaryCondition"
                /\ cond.args = <<FieldProxy___column(cond_call.field), value(1)>>
        /\ cond_call.helper \in TernaryVariants =>
                /\ cond.node = "TernaryCondition"
                /\ cond.args = <<FieldProxy___column(cond_call.field), value(1), value(2)>>
        /\ (cond_call.helper = "Equals" /\ cond_call.operands[1].kind # "FieldProxy") =>
                /\ rendered.sql = <<Text(cond_call.field), Text("="),
                                    Placeholder(value(1).value)>>
                /\ rendered.lookup = <<value(1).value>>

\* name.equals("Bob").
C19_Witness ==
    /\ cond_call.helper = "Equals"
    /\ cond_call.field = "name"
    /\ cond_call.operands = <<StrOperand("Bob")>>
    /\ Condition_build(cond_call.condition, <<>>) =
            [sql |-> <<Text("name"), Text("="), Placeholder(Value_String("Bob"))>>,
             lookup |-> <<Value_String("Bob")>>]

\* C20: the annotations of a foreign-key field are nullable exactly if its
\* type is Option-wrapped, whatever the author set; max_length is the one
\* the author set if there is one and otherwise the effective one of the
\* target field; foreign names the target model's table and the target
\* field's column.
C20_ForeignAnnotations ==
    foreign.called =>
        /\ foreign.annos.nullable = foreign.IS_OPTION
        /\ foreign.annos.max_length =
                (IF foreign.field.max_length.some
                 THEN foreign.field.max_length
                 ELSE foreign.RelatedField.EFFECTIVE_ANNOTATION.max_length)
        /\ foreign.annos.foreign =
                Some(ForeignKey(foreign.RelatedField.TABLE, foreign.RelatedField.NAME))

\* A field that is not Option-wrapped, set nullable by its author and
\* without max_length, pointing to group.name whose max_length is 2.
C20_Witness ==
    /\ foreign.called
    /\ ~foreign.IS_OPTION
    /\ foreign.field.nullable
    /\ ~foreign.field.max_length.some
    /\ foreign.RelatedField.EFFECTIVE_ANNOTATION.max_length = Some(2)
    /\ foreign.annos.nullable = FALSE
    /\ foreign.annos.max_length = Some(2)
    /\ foreign.annos.foreign = Some(ForeignKey("group", "name"))

\* The number of integers in a range argument.
RangeCount(r) ==
    LET e == IF r.incl THEN r.end + 1 ELSE r.end IN
    IF e > r.start THEN e - r.start ELSE 0

\* C29 (as stated): range() on any Range or RangeInclusive does not panic
\* and yields the number of integers in the range as limit (0 for an empty
\* or reversed range) and the start as offset, the inclusive range up to the
\* largest u64 included.
C29_RangeCountsEveryRange ==
    range_arg.set =>
        /\ qb.stage # "panicked"
        /\ qb.lim_off = Limit(RangeCount(range_arg), OffsetOnly(range_arg.start))

\* C28: one() and optional() exist only on a builder on which neither
\* limit() nor range() was called, and the execution layer gets from them no
\* limit and exactly the offset that was set, or none.
C28_OneOptionalWithoutLimit ==
    /\ (ENABLED QueryBuilder_one \/ ENABLED QueryBuilder_optional) =>
            \A i \in 1 .. Len(lo_calls) : lo_calls[i].method = "offset"
    /\ db_call.method \in {"query_one", "query_optional"} =>
            /\ \A i \in 1 .. Len(lo_calls) : lo_calls[i].method = "offset"
            /\ ~db_call.clause.some
            /\ IF lo_calls = <<>>
               THEN ~db_call.clause.has_offset
               ELSE /\ Len(lo_calls) = 1
                    /\ db_call.clause.has_offset
                    /\ db_call.clause.offset = lo_calls[1].n

\* optional() ran after condition() and offset(1) and handed over offset 1.
C28_Witness ==
    /\ db_call.method = "query_optional"
    /\ lo_calls = <<[method |-> "offset", n |-> 1]>>
    /\ qb.condition = "c1"
    /\ db_call.clause.has_offset
    /\ db_call.clause.offset = 1
    /\ ~db_call.clause.some

LimitClause(n, has_offset, m) ==
    [some |-> TRUE, limit |-> n, has_offset |-> has_offset, offset |-> m]

\* C27: limit(n) alone gives the clause {limit n, no offset}; limit(n) then
\* offset(m) and offset(m) then limit(n) both give {limit n, offset m}, which
\* is what range(m..m+n) gives; condition() and transaction(), wherever they
\* come, change nothing of it, and all() and stream() hand over that clause.
C27_LimitOffsetRangeAgree ==
    qb.stage # "panicked" =>
        /\ \A n \in U64 :
              lo_calls = <<[method |-> "limit", n |-> n]>> =>
                  LimitMarker_into_option(qb.lim_off) = LimitClause(n, FALSE, 0)
        /\ \A n \in U64, m \in U64 :
              (lo_calls \in {<<[method |-> "limit", n |-> n], [method |-> "offset", n |-> m]>>,
                             <<[method |-> "offset", n |-> m], [method |-> "limit", n |-> n]>>}) =>
                  LimitMarker_into_option(qb.lim_off) = LimitClause(n, TRUE, m)
        /\ \A n \in U64, m \in U64 :
              (/\ lo_calls = <<[method |-> "range", n |-> 0]>>
               /\ range_arg = [set |-> TRUE, incl |-> FALSE, start |-> m, end |-> m + n]) =>
                  LimitMarker_into_option(qb.lim_off) = LimitClause(n, TRUE, m)
        /\ db_call.method \in {"query_all", "query_stream"} =>
              db_call.clause = LimitMarker_into_option(qb.lim_off)

\* offset(2), condition(), limit(3), transaction(), then all().
C27_Witness ==
    /\ lo_calls = <<[method |-> "offset", n |-> 2], [method |-> "limit", n |-> 3]>>
    /\ qb.condition = "c1"
    /\ qb.transaction = "t2"
    /\ db_call.method = "query_all"
    /\ db_call.clause = LimitClause(3, TRUE, 2)

\* What the stream must yield for a delivered row: the whole decoded row or
\* a decode error.
ItemOf(sel, r) ==
    LET d == SelectTuple_decode(sel, r) IN
    IF d.ok THEN RowOk(d.vals) ELSE RowErr(Error_DecodeError("Could not decode row"))

\* C22: the stream yields one item per delivered row, in the order of
\* delivery, which is the order of the selected rows; an item is the whole
\* decoded row, with one value per selected field, or an error; only a
\* failure of the execution layer adds an item, its error, and that is the
\* last one.
C22_StreamItemPerRow ==
    db_call.method = "query_stream" =>
        /\ returned \o stream_rest = Selected \/ (stream_rest = <<>> /\ qb.stage = "executed")
        /\ returned = SubSeq(Selected, 1, Len(returned))
        /\ Len(items) \in {Len(returned), Len(returned) + 1}
        /\ \A i \in 1 .. Len(returned) : items[i] = ItemOf(selector, returned[i])
        /\ \A i \in 1 .. Len(items) : items[i].ok => Len(items[i].vals) = Len(selector)
        /\ Len(items) = Len(returned) + 1 =>
              /\ items[Len(items)] = RowErr(Error_Driver)
              /\ qb.stage = "executed"

\* A stream over two rows of which the first decodes and the second does
\* not: two items, the row and the decode error.
C22_Witness ==
    /\ db_call.method = "query_stream"
    /\ qb.stage = "executed"
    /\ Len(returned) = 2
    /\ Len(items) = 2
    /\ items[1].ok
    /\ Len(items[1].vals) = 2
    /\ items[2] = RowErr(Error_DecodeError("Could not decode row"))

\* The field has no annotation besides auto_update_time and the one given.
OnlyAutoUpdateTimeAnd(a) ==
    \A b \in {CT, AI, CH, DE, IN_, ML, PK, UN} : Has(b) <=> (b = a)

\* C26 (as stated): a not-null auto_update_time field without a default and
\* without auto_create_time is rejected by check_annotations, and a not-null
\* auto_update_time field whose only other annotation is a default, or is
\* auto_create_time, is accepted.
C26_AutoUpdateTimeFallbacks ==
    (lint.checked /\ Has(UT) /\ Has(NN)) =>
        /\ (~Has(DE) /\ ~Has(CT)) => lint.panicked
        /\ (OnlyAutoUpdateTimeAnd(DE) \/ OnlyAutoUpdateTimeAnd(CT)) => ~lint.panicked

\* C24: every export of a model definition has the definition's name and
\* source and one field per field of the definition, in the same order, each
\* with the same name, db type and source; two exports of the same definition
\* are identical; and the vector push_imr fills has one field per call, in
\* the order of the calls, each with the NAME, db type and SOURCE of its field.
C24_ExportPreservesOrder ==
    /\ \A k \in 1 .. Len(exports.results) :
        LET model == unwrap(exports.definition)
            out == exports.results[k]
        IN  /\ out.name = model.name
            /\ out.source_defined_at = model.source
            /\ Len(out.fields) = Len(model.fields)
            /\ \A i \in 1 .. Len(model.fields) :
                /\ out.fields[i].name = model.fields[i].name
                /\ out.fields[i].db_type = model.fields[i].db_type
                /\ out.fields[i].source_defined_at = model.fields[i].source
            /\ out = exports.results[1]
    /\ Len(imr.vec) = Len(imr.pushed)
    /\ \A i \in 1 .. Len(imr.pushed) :
        /\ imr.vec[i].name = imr.pushed[i].NAME
        /\ imr.vec[i].db_type = imr.pushed[i].IMR
        /\ imr.vec[i].source_defined_at = imr.pushed[i].SOURCE

\* A definition of two different fields, name before id, was exported twice.
C24_Witness ==
    /\ Len(exports.results) = 2
    /\ exports.definition.some
    /\ Len(unwrap(exports.definition).fields) = 2
    /\ exports.results[2].fields[1].name = "name"
    /\ exports.results[2].fields[1].db_type = "VarChar"
    /\ exports.results[2].fields[2].name = "id"
    /\ exports.results[2].fields[2].source_defined_at = Some("user.rs:3")

\* The times NotNull is in a list of annotations.
CountNotNull(annotations) ==
    Cardinality({i \in 1 .. Len(annotations) : annotations[i] = "NotNull"})

\* C30 (as stated): an exported field has NotNull exactly once when the field
\* is not nullable and not at all when it is nullable, whatever annotations
\* it carries.
C30_NotNullExactlyOnce ==
    imr_field.called =>
        CountNotNull(imr_field.out.annotations) = IF imr_field.field.nullable THEN 0 ELSE 1

\* C25 (as stated): a FieldProxy is made only for a field whose CHECK does
\* not panic.
C25_ProxyOnlyForCheckedField ==
    proxy.made => ~Field_CHECK(proxy.F).panicked

\* C23: the i-th column a tuple selection requests has the name of its i-th
\* field, and when the row decodes, the i-th element of the result is the
\* value at position i of the row, of the i-th field's type; when it does not,
\* some position is missing from the row or holds a value of another type.
\* The columns a patch selection requests are the columns of the patch's
\* COLUMNS, in their order. A tuple of selectors registers its constituents
\* in tuple order, and its i-th decoder is the one of the i-th constituent:
\* it reads the i-th registered column as the constituent's type.
C23_SelectionDecodingAligned ==
    /\ tuple_sel.called =>
        /\ Len(tuple_sel.columns) = Len(tuple_sel.tuple)
        /\ \A i \in 1 .. Len(tuple_sel.tuple) :
            tuple_sel.columns[i].column_name = tuple_sel.tuple[i].name
        /\ IF tuple_sel.decoded.ok
           THEN /\ Len(tuple_sel.decoded.vals) = Len(tuple_sel.tuple)
                /\ \A i \in 1 .. Len(tuple_sel.tuple) :
                    /\ i <= Len(tuple_sel.row)
                    /\ tuple_sel.decoded.vals[i] = tuple_sel.row[i].val
                    /\ tuple_sel.row[i].val.t = tuple_sel.tuple[i].ty
           ELSE \E i \in 1 .. Len(tuple_sel.tuple) :
                    \/ i > Len(tuple_sel.row)
                    \/ tuple_sel.row[i].val.t # tuple_sel.tuple[i].ty
    /\ patch_sel.called =>
        /\ [i \in 1 .. Len(patch_sel.columns) |-> Some(patch_sel.columns[i].column_name)]
              = SelectSeq(patch_sel.COLUMNS, LAMBDA c : c.some)
        /\ \A i \in 1 .. Len(patch_sel.columns) :
              patch_sel.columns[i].table_name = Some("user")
    /\ selected.called =>
        /\ Len(selected.ctx) = Len(selected.self)
        /\ Len(selected.decoder) = Len(selected.self)
        /\ \A i \in 1 .. Len(selected.self) :
            /\ selected.ctx[i].column_name = selected.self[i].name
            /\ selected.decoder[i].index = i - 1
            /\ selected.decoder[i].column = selected.ctx[i].select_alias
            /\ selected.decoder[i].ty = selected.self[i].ty

\* The tuple (name, id) requested the columns name and id and decoded the row
\* ("a", 1) as ("a", 1).
C23_Witness ==
    /\ tuple_sel.called
    /\ Len(tuple_sel.tuple) = 2
    /\ tuple_sel.columns[1].column_name = "name"
    /\ tuple_sel.columns[2].column_name = "id"
    /\ tuple_sel.decoded.ok
    /\ tuple_sel.decoded.vals = <<Str(<<"a">>), I16(1)>>

\* C21: at any time at most one query that is being built, is running or is
\* streaming holds a given transaction, so no two statements are built on
\* or executed against the same transaction at once.
C21_TransactionHeldByOne ==
    \A tx \in Transactions : Cardinality(Holders(tx_queries, tx)) <= 1

\* Query 1 ran on t1 and completed; after that query 2 took t1 and is
\* running on it.
C21_Witness ==
    /\ tx_queries[1] = [stage |-> "done", transaction |-> "t1"]
    /\ tx_queries[2] = [stage |-> "running", transaction |-> "t1"]

====
